---- MODULE Spec2Model ----
(***************************************************************************)
(* Validation and constraint engine of the RDPM/RBAC modelling tool:       *)
(*   - task chain validators   (utils/patternValidation.js,                *)
(*                              utils/taskValidation.js)                    *)
(*   - resource allocation     (utils/taskValidation.js,                   *)
(*                              services/AuthorizationService.js,          *)
(*                              components/task/TaskPropertiesPanel.js)    *)
(*   - role hierarchy          (hooks/useRole.js, store/roleSlice.js)      *)
(***************************************************************************)
EXTENDS Integers, FiniteSets, Sequences, TLC

VARIABLES
    taskChain,        \* task map as read by the chain validators: id -> link fields
    chainCall,        \* last call of a chain validator and what it returned
    nextTaskWalk,     \* validateNextTaskSelection: the locals of a call in progress
    taskProperties,   \* task map as read by the allocation validators: id -> binding
    allocCall,        \* last call of an allocation validator and what it returned
    selectedElement,  \* TaskPropertiesPanel: the selected task (prop)
    editingData,      \* TaskPropertiesPanel: useState editingData
    allocationType,   \* TaskPropertiesPanel: useState allocationType
    isEditing,        \* TaskPropertiesPanel: useState isEditing
    panelSteps,       \* number of panel handlers run so far
    panelCall,        \* last panel handler that ran and its outcome
    roles,            \* roleSlice: state.roles
    roleName,         \* useRole: useState roleName
    parentRole,       \* useRole: useState parentRole
    editMode,         \* useRole: useState editMode
    selectedRole,     \* useRole: useState selectedRole
    roleCall,         \* last handleAddOrEditRole call and its outcome
    permCall,         \* last getRolePermissions call and its result
    permStack,        \* getRolePermissions: the calls in progress, innermost last
    hierarchyCall,    \* last buildRoleHierarchy / getRoleHierarchy call and its forest
    patterns,         \* patternSlice: state.patterns
    patternName,      \* ChangePatternEditor: the form's name field
    editorRole,       \* ChangePatternEditor: useState selectedRole
    editorResource,   \* ChangePatternEditor: useState selectedResource
    patternCall,      \* last handleSave and the pattern it dispatched
    editorVersion,    \* ChangePatternEditor: which of its two versions runs
    editorTasks,      \* ChangePatternEditor: useState taskProperties (links and status)
    canvas,           \* bpmn-js elementRegistry: the task shapes of the diagram
    pendingSelection, \* setTimeout callbacks of handleSelection not yet run
    taskOpCall        \* last editor handler that ran on the task map

chainVars == <<taskChain, chainCall, nextTaskWalk>>
allocVars == <<taskProperties, allocCall>>
panelVars == <<selectedElement, editingData, allocationType, isEditing, panelSteps, panelCall>>
roleVars  == <<roles, roleName, parentRole, editMode, selectedRole, roleCall,
               permCall, permStack, hierarchyCall>>
taskOpVars == <<editorVersion, editorTasks, canvas, pendingSelection, taskOpCall>>
editorVars == <<patterns, patternName, editorRole, editorResource, patternCall, taskOpVars>>
vars == <<chainVars, allocVars, panelVars, roleVars, editorVars>>

\* null / undefined of the source
NULL == 0

(***************************************************************************)
(* Bounds                                                                  *)
(***************************************************************************)
MaxTasks == 3

TaskIds == 1..MaxTasks

(***************************************************************************)
(* Task chain validators                                                   *)
(***************************************************************************)
\* a key that is not in the task map
NoTask == [present |-> FALSE, nextTaskId |-> NULL, isEndTask |-> FALSE]

TaskLinks ==
    {NoTask} \cup [present : {TRUE}, nextTaskId : TaskIds \cup {NULL}, isEndTask : BOOLEAN]

\* Object.keys / Object.values of a task map
TaskKeys(tp) == {t \in TaskIds : tp[t].present}

\* tasks.some((t) => t.nextTaskId === id)
HasIncoming(tp, id) == \E t \in TaskKeys(tp) : tp[t].nextTaskId = id

\* the isolated-task pass of validateTaskChain
IsolatedTasks(tp) ==
    {t \in TaskKeys(tp) :
        /\ ~HasIncoming(tp, t)
        /\ ~(tp[t].nextTaskId # NULL \/ tp[t].isEndTask)}

\* checkCircular(taskId, path): acc carries the shared visited set and the
\* number of "Circular dependency" errors pushed so far
RECURSIVE checkCircular(_, _, _, _)
checkCircular(tp, taskId, path, acc) ==
    IF taskId \in path
    THEN [acc EXCEPT !.circular = @ + 1]
    ELSE IF taskId \in acc.visited \/ ~tp[taskId].present
    THEN acc
    ELSE LET acc2 == [acc EXCEPT !.visited = @ \cup {taskId}]
         IN  IF tp[taskId].nextTaskId # NULL
             THEN checkCircular(tp, tp[taskId].nextTaskId, path \cup {taskId}, acc2)
             ELSE acc2

\* tasks.filter((task) => !tasks.some((t) => t.nextTaskId === task.id))
StartTasks(tp) == {t \in TaskKeys(tp) : ~HasIncoming(tp, t)}

\* startTasks.forEach((task) => checkCircular(task.id)), in key order
RECURSIVE WalkStarts(_, _, _)
WalkStarts(tp, starts, acc) ==
    IF starts = {}
    THEN acc
    ELSE LET s == CHOOSE x \in starts : \A y \in starts : x <= y
         IN  WalkStarts(tp, starts \ {s}, checkCircular(tp, s, {}, acc))

validateTaskChain(tp) ==
    IF TaskKeys(tp) = {}
    THEN [isValid |-> FALSE, empty |-> TRUE, isolated |-> {}, circular |-> 0]
    ELSE LET iso  == IsolatedTasks(tp)
             walk == WalkStarts(tp, StartTasks(tp), [visited |-> {}, circular |-> 0])
         IN  [isValid  |-> iso = {} /\ walk.circular = 0,
              empty    |-> FALSE,
              isolated |-> iso,
              circular |-> walk.circular]

\* the while loop of validateNextTaskSelection
RECURSIVE NextTaskWalk(_, _, _)
NextTaskWalk(tp, checkedTasks, taskToCheck) ==
    IF taskToCheck = NULL
    THEN TRUE
    ELSE IF taskToCheck \in checkedTasks
    THEN FALSE
    ELSE NextTaskWalk(tp, checkedTasks \cup {taskToCheck},
                      IF tp[taskToCheck].present THEN tp[taskToCheck].nextTaskId ELSE NULL)

validateNextTaskSelectionDirectOnly(currentTaskId, nextTaskId, tp) ==
    currentTaskId # nextTaskId

validateNextTaskSelection(currentTaskId, nextTaskId, tp) ==
    IF currentTaskId = nextTaskId
    THEN FALSE
    ELSE NextTaskWalk(tp, {currentTaskId}, nextTaskId)

\* taskData of validateTaskOperation: the fields the function reads
TaskData(id, named, next) == [id |-> id, named |-> named, nextTaskId |-> next]

\* Object.values(existingTasks).filter((task) => task.nextTaskId === taskData.id)
DependentTasks(taskData, existingTasks) ==
    {t \in TaskKeys(existingTasks) : existingTasks[t].nextTaskId = taskData.id}

validateTaskOperationAnyDependent(operation, taskData, existingTasks) ==
    ~(operation = "delete" /\ Cardinality(DependentTasks(taskData, existingTasks)) > 0)

validateTaskOperation(operation, taskData, existingTasks) ==
    CASE operation = "add"    -> taskData.named
      [] operation = "delete" -> ~(Cardinality(DependentTasks(taskData, existingTasks)) > 1)
      [] operation = "update" -> ~(taskData.nextTaskId = taskData.id)
      [] OTHER                -> TRUE

\* an array of task ids in ascending order
RECURSIVE ArrayOf(_)
ArrayOf(S) ==
    IF S = {}
    THEN <<>>
    ELSE LET least == CHOOSE x \in S : \A y \in S : x <= y
         IN  <<least>> \o ArrayOf(S \ {least})

\* Array.isArray(task.nextTasks) ? task.nextTasks : [task.nextTaskId].filter(Boolean)
\* a task record has the field nextTasks exactly when the task has the array
NextTasksOf(task) ==
    IF "nextTasks" \in DOMAIN task
    THEN task.nextTasks
    ELSE IF task.nextTaskId = NULL THEN <<>> ELSE <<task.nextTaskId>>

\* utils/taskValidation.js: validateTaskChainLogic.  hasCycle(taskId, path)
\* with the sets visited and visiting threaded through st; reading a field of
\* tasks[taskId] when the map has no such task throws a TypeError
RECURSIVE hasCycleLogic(_, _, _, _)
RECURSIVE VisitNextTasks(_, _, _, _)

\* a hasCycle that takes every second visit of a task for a cycle
hasCycleLogicRevisitIsCycle(tasks, taskId, path, st) ==
    IF taskId \in st.visiting \cup st.visited
    THEN [st EXCEPT !.cycle = TRUE]
    ELSE IF ~tasks[taskId].present
    THEN [st EXCEPT !.threw = TRUE]
    ELSE LET entered == [st EXCEPT !.visiting = @ \cup {taskId}]
             inner == VisitNextTasks(tasks, NextTasksOf(tasks[taskId]),
                                     path \cup {taskId}, entered)
         IN  IF inner.threw \/ inner.cycle
             THEN inner
             ELSE [inner EXCEPT !.visiting = @ \ {taskId},
                                !.visited = @ \cup {taskId},
                                !.cycle = FALSE]

\* for (const nextId of nextTasks)
\*     if (path.has(nextId) || hasCycle(nextId, new Set(path))) return true
VisitNextTasks(tasks, nextTasks, path, st) ==
    IF nextTasks = <<>>
    THEN [st EXCEPT !.cycle = FALSE]
    ELSE IF Head(nextTasks) \in path
    THEN [st EXCEPT !.cycle = TRUE]
    ELSE LET r == hasCycleLogic(tasks, Head(nextTasks), path, st)
         IN  IF r.threw \/ r.cycle
             THEN r
             ELSE VisitNextTasks(tasks, Tail(nextTasks), path, r)

hasCycleLogic(tasks, taskId, path, st) ==
    IF taskId \in st.visiting
    THEN [st EXCEPT !.cycle = TRUE]
    ELSE IF taskId \in st.visited
    THEN [st EXCEPT !.cycle = FALSE]
    ELSE IF ~tasks[taskId].present
    THEN [st EXCEPT !.threw = TRUE]
    ELSE LET entered == [st EXCEPT !.visiting = @ \cup {taskId}]
             inner == VisitNextTasks(tasks, NextTasksOf(tasks[taskId]),
                                     path \cup {taskId}, entered)
         IN  IF inner.threw \/ inner.cycle
             THEN inner
             ELSE [inner EXCEPT !.visiting = @ \ {taskId},
                                !.visited = @ \cup {taskId},
                                !.cycle = FALSE]

\* validateTaskChainTopology of the pattern validators.  hasCycle(taskId)
\* with the sets visited and recursionStack (kept in st.visiting)
RECURSIVE hasCycleTopology(_, _, _)
hasCycleTopology(tasks, taskId, st) ==
    IF taskId \in st.visiting
    THEN [st EXCEPT !.cycle = TRUE]
    ELSE IF taskId \in st.visited
    THEN [st EXCEPT !.cycle = FALSE]
    ELSE IF ~tasks[taskId].present
    THEN [st EXCEPT !.threw = TRUE]
    ELSE LET entered == [st EXCEPT !.visited = @ \cup {taskId},
                                   !.visiting = @ \cup {taskId}]
             nextTaskId == tasks[taskId].nextTaskId
             inner == IF nextTaskId = NULL
                      THEN [entered EXCEPT !.cycle = FALSE]
                      ELSE hasCycleTopology(tasks, nextTaskId, entered)
         IN  IF inner.threw \/ inner.cycle
             THEN inner
             ELSE [inner EXCEPT !.visiting = @ \ {taskId}, !.cycle = FALSE]

\* for (const taskId in tasks) { if (hasCycle(taskId)) return invalid }, the
\* keys taken in ascending order from taskId on; which is "logic" or "topology"
RECURSIVE ForEachTaskHasCycle(_, _, _, _)
ForEachTaskHasCycle(which, tasks, taskId, st) ==
    IF taskId > MaxTasks
    THEN st
    ELSE IF ~tasks[taskId].present
    THEN ForEachTaskHasCycle(which, tasks, taskId + 1, st)
    ELSE LET r == IF which = "logic"
                  THEN hasCycleLogic(tasks, taskId, {}, st)
                  ELSE hasCycleTopology(tasks, taskId, st)
         IN  IF r.threw \/ r.cycle
             THEN r
             ELSE ForEachTaskHasCycle(which, tasks, taskId + 1, r)

NoCycleState == [visited |-> {}, visiting |-> {}, cycle |-> FALSE, threw |-> FALSE]

validateTaskChainLogic(tasks) ==
    LET r == ForEachTaskHasCycle("logic", tasks, 1, NoCycleState)
    IN  [threw |-> r.threw, isValid |-> ~r.threw /\ ~r.cycle]

validateTaskChainTopology(tasks) ==
    LET r == ForEachTaskHasCycle("topology", tasks, 1, NoCycleState)
    IN  [threw |-> r.threw, isValid |-> ~r.threw /\ ~r.cycle]

\* validateNextTaskSelection, one iteration of its while loop at a time.
\* pc is "idle" before the call, "while" at the loop test, "done" after the
\* return; visits lists the tasks whose entry the loop has read
NoNextTaskWalk ==
    [pc |-> "idle", currentTaskId |-> NULL, checkedTasks |-> {}, taskToCheck |-> NULL,
     visits |-> <<>>, result |-> FALSE]

\* if (currentTaskId === nextTaskId) return false;
\* let checkedTasks = new Set([currentTaskId]); let taskToCheck = nextTaskId;
EnterNextTaskWalk(currentTaskId, nextTaskId) ==
    IF currentTaskId = nextTaskId
    THEN [NoNextTaskWalk EXCEPT !.pc = "done", !.currentTaskId = currentTaskId]
    ELSE [NoNextTaskWalk EXCEPT !.pc = "while", !.currentTaskId = currentTaskId,
                                !.checkedTasks = {currentTaskId},
                                !.taskToCheck = nextTaskId]

\* a loop body that never adds the task to checkedTasks
WhileTaskToCheckWithoutAdd(w, tp) ==
    IF w.taskToCheck = NULL
    THEN [w EXCEPT !.pc = "done", !.result = TRUE]
    ELSE IF w.taskToCheck \in w.checkedTasks
    THEN [w EXCEPT !.pc = "done", !.result = FALSE]
    ELSE [w EXCEPT !.visits = Append(@, w.taskToCheck),
                   !.taskToCheck = IF tp[w.taskToCheck].present
                                   THEN tp[w.taskToCheck].nextTaskId
                                   ELSE NULL]

\* while (taskToCheck) { if (checkedTasks.has(taskToCheck)) return false;
\*   checkedTasks.add(taskToCheck);
\*   taskToCheck = taskProperties[taskToCheck]?.nextTaskId; }  return true;
WhileTaskToCheck(w, tp) ==
    IF w.taskToCheck = NULL
    THEN [w EXCEPT !.pc = "done", !.result = TRUE]
    ELSE IF w.taskToCheck \in w.checkedTasks
    THEN [w EXCEPT !.pc = "done", !.result = FALSE]
    ELSE [w EXCEPT !.checkedTasks = @ \cup {w.taskToCheck},
                   !.visits = Append(@, w.taskToCheck),
                   !.taskToCheck = IF tp[w.taskToCheck].present
                                   THEN tp[w.taskToCheck].nextTaskId
                                   ELSE NULL]

BeginValidateNextTaskSelection(currentTaskId, nextTaskId) ==
    /\ nextTaskWalk.pc = "idle"
    /\ nextTaskWalk' = EnterNextTaskWalk(currentTaskId, nextTaskId)
    /\ UNCHANGED <<taskChain, chainCall, allocVars, panelVars, roleVars, editorVars>>

StepValidateNextTaskSelection ==
    /\ nextTaskWalk.pc = "while"
    /\ nextTaskWalk' = WhileTaskToCheck(nextTaskWalk, taskChain)
    /\ UNCHANGED <<taskChain, chainCall, allocVars, panelVars, roleVars, editorVars>>

\* the validators are applied to a snapshot of the task map: one call per
\* snapshot, its arguments and its return value kept in chainCall
NoChainCall ==
    [fn |-> "none", source |-> NULL, target |-> NULL, result |-> [isValid |-> FALSE]]

ChainInit ==
    /\ taskChain \in [TaskIds -> TaskLinks]
    /\ chainCall = NoChainCall
    /\ nextTaskWalk = NoNextTaskWalk

CallValidateTaskChain ==
    /\ chainCall = NoChainCall
    /\ chainCall' = [fn |-> "validateTaskChain", source |-> NULL, target |-> NULL,
                     result |-> validateTaskChain(taskChain)]
    /\ UNCHANGED <<taskChain, nextTaskWalk, allocVars, panelVars, roleVars, editorVars>>

CallValidateNextTaskSelection(src, tgt) ==
    /\ chainCall = NoChainCall
    /\ chainCall' = [fn |-> "validateNextTaskSelection", source |-> src, target |-> tgt,
                     result |-> [isValid |-> validateNextTaskSelection(src, tgt, taskChain)]]
    /\ UNCHANGED <<taskChain, nextTaskWalk, allocVars, panelVars, roleVars, editorVars>>

CallValidateTaskOperation(operation, taskData) ==
    /\ chainCall = NoChainCall
    /\ chainCall' = [fn |-> "validateTaskOperation", operation |-> operation,
                     source |-> taskData.id, target |-> taskData.nextTaskId,
                     result |-> [isValid |-> validateTaskOperation(operation, taskData,
                                                                  taskChain)]]
    /\ UNCHANGED <<taskChain, nextTaskWalk, allocVars, panelVars, roleVars, editorVars>>

CallValidateTaskChainLogic ==
    /\ chainCall = NoChainCall
    /\ chainCall' = [fn |-> "validateTaskChainLogic", source |-> NULL, target |-> NULL,
                     result |-> validateTaskChainLogic(taskChain)]
    /\ UNCHANGED <<taskChain, nextTaskWalk, allocVars, panelVars, roleVars, editorVars>>

CallValidateTaskChainTopology ==
    /\ chainCall = NoChainCall
    /\ chainCall' = [fn |-> "validateTaskChainTopology", source |-> NULL, target |-> NULL,
                     result |-> validateTaskChainTopology(taskChain)]
    /\ UNCHANGED <<taskChain, nextTaskWalk, allocVars, panelVars, roleVars, editorVars>>

\* task maps as the templates of utils/taskTemplates.js build them: a task
\* has a nextTaskId, a nextTasks array, or an empty array beside a nextTaskId
TemplateTaskLinks ==
    {NoTask}
    \cup [present : {TRUE}, nextTaskId : TaskIds \cup {NULL}, isEndTask : {FALSE}]
    \cup [present : {TRUE}, nextTaskId : {NULL}, isEndTask : {FALSE},
          nextTasks : {ArrayOf(S) : S \in SUBSET TaskIds}]
    \cup {[present |-> TRUE, nextTaskId |-> 1, isEndTask |-> FALSE, nextTasks |-> <<>>]}

LogicInit ==
    /\ taskChain \in [TaskIds -> TemplateTaskLinks]
    /\ chainCall = NoChainCall
    /\ nextTaskWalk = NoNextTaskWalk

LogicNext == CallValidateTaskChainLogic

\* the task maps the walk is run on: every combination of links, links to
\* missing tasks and cycles included (isEndTask is not read by the walk)
WalkTaskLinks == {l \in TaskLinks : ~l.isEndTask}

WalkInit ==
    /\ taskChain \in [TaskIds -> WalkTaskLinks]
    /\ chainCall = NoChainCall
    /\ nextTaskWalk = NoNextTaskWalk

WalkNext ==
    \/ \E src \in TaskIds, tgt \in TaskIds \cup {NULL} :
            BeginValidateNextTaskSelection(src, tgt)
    \/ StepValidateNextTaskSelection

ChainNext ==
    \/ CallValidateTaskChain
    \/ CallValidateTaskChainLogic
    \/ CallValidateTaskChainTopology
    \/ \E id \in TaskIds : CallValidateTaskOperation("delete", TaskData(id, TRUE, NULL))
    \/ \E id \in TaskIds, next \in TaskIds \cup {NULL} :
            CallValidateTaskOperation("update", TaskData(id, TRUE, next))
    \/ \E named \in BOOLEAN : CallValidateTaskOperation("add", TaskData(NULL, named, NULL))
    \/ \E src \in TaskIds, tgt \in TaskIds \cup {NULL} : CallValidateNextTaskSelection(src, tgt)

(***************************************************************************)
(* Resource registry and task bindings                                     *)
(***************************************************************************)
SharedCap == 2

\* the registry handed to the validators (selectResources): one exclusive and
\* one shared resource
resources ==
    { [id |-> 1, isShared |-> FALSE, maxShares |-> 1],
      [id |-> 2, isShared |-> TRUE,  maxShares |-> SharedCap] }

RegisteredIds == {r.id : r \in resources}

\* a resource id that resolves to no registry entry
DanglingIds == {3}

ResourceIds == RegisteredIds \cup DanglingIds

TaskRoles == {1, 2}

\* task.resourceId: undefined, one id (1:1) or an array of ids (1:n, n:n)
NoResource == [kind |-> "none", id |-> NULL, ids |-> {}]
One(r)     == [kind |-> "one",  id |-> r,    ids |-> {}]
List(S)    == [kind |-> "list", id |-> NULL, ids |-> S]

\* task.roleResources: undefined, or an object role -> array of ids
NoRoleResources == [defined |-> FALSE, keys |-> {}, lists |-> [q \in TaskRoles |-> {}]]
RoleResources(f, K) ==
    [defined |-> TRUE, keys |-> K, lists |-> [q \in TaskRoles |-> IF q \in K THEN f[q] ELSE {}]]

\* task.roleId: undefined, one role or an array of roles
NoRole       == [kind |-> "none", id |-> NULL, ids |-> {}]
OneRole(q)   == [kind |-> "one",  id |-> q,    ids |-> {}]
RoleList(Q)  == [kind |-> "list", id |-> NULL, ids |-> Q]

\* find((r) => r.id === resourceId): an array argument equals no id
FindResource(resourceId) ==
    IF resourceId.kind = "one" /\ resourceId.id \in RegisteredIds
    THEN {r \in resources : r.id = resourceId.id}
    ELSE {}

\* resource.maxShares || 1
MaxSharesOr1(resource) == IF resource.maxShares = 0 THEN 1 ELSE resource.maxShares

\* task.resourceId === resourceId
SameResourceId(task, resourceId) ==
    /\ resourceId.kind = "one"
    /\ task.resourceId.kind = "one"
    /\ task.resourceId.id = resourceId.id

\* Object.values(task.roleResources): the roles whose array includes the id
RolesListing(task, r) ==
    IF task.roleResources.defined
    THEN {q \in task.roleResources.keys : r \in task.roleResources.lists[q]}
    ELSE {}

(***************************************************************************)
(* utils/taskValidation.js: validateResourceAllocation                     *)
(***************************************************************************)
validateResourceAllocationCountingSelf(resourceId, taskId, tp) ==
    LET found == FindResource(resourceId)
    IN  IF found = {}
        THEN FALSE
        ELSE LET resource == CHOOSE r \in found : TRUE
                 currentUsage ==
                     Cardinality({id \in DOMAIN tp : SameResourceId(tp[id], resourceId)})
             IN  IF resource.isShared
                 THEN currentUsage < MaxSharesOr1(resource)
                 ELSE currentUsage = 0

validateResourceAllocation(resourceId, taskId, tp) ==
    LET found == FindResource(resourceId)
    IN  IF found = {}
        THEN FALSE
        ELSE LET resource == CHOOSE r \in found : TRUE
                 currentUsage ==
                     Cardinality({id \in DOMAIN tp :
                                     id # taskId /\ SameResourceId(tp[id], resourceId)})
             IN  IF resource.isShared
                 THEN currentUsage < MaxSharesOr1(resource)
                 ELSE currentUsage = 0

(***************************************************************************)
(* services/AuthorizationService.js                                        *)
(***************************************************************************)
\* the callback of Object.entries(taskProperties).some(...) for one other task
UsedByTask(task, r) ==
    IF task.resourceId.kind = "list"
    THEN r \in task.resourceId.ids
    ELSE IF task.resourceId.kind = "one" /\ task.resourceId.id = r
    THEN TRUE
    ELSE RolesListing(task, r) # {}

AuthIsResourceAvailable(r, excludeTaskId, tp) ==
    LET isUsedInOtherTasks ==
            \E id \in DOMAIN tp : id # excludeTaskId /\ UsedByTask(tp[id], r)
        usedByCurrent ==
            /\ excludeTaskId \in DOMAIN tp
            /\ \/ tp[excludeTaskId].resourceId.kind = "list"
                    /\ r \in tp[excludeTaskId].resourceId.ids
               \/ tp[excludeTaskId].resourceId.kind = "one"
                    /\ tp[excludeTaskId].resourceId.id = r
               \/ RolesListing(tp[excludeTaskId], r) # {}
    IN  usedByCurrent \/ ~isUsedInOtherTasks

\* what one task adds to the reduce of countResourceShares
SharesOfTask(task, r) ==
    (IF \/ task.resourceId.kind = "list" /\ r \in task.resourceId.ids
        \/ task.resourceId.kind = "one" /\ task.resourceId.id = r
     THEN 1 ELSE 0)
    + Cardinality(RolesListing(task, r))

\* Object.values(taskProperties).reduce((count, task) => ..., 0), with
\* shares[id] what the task id adds
RECURSIVE ReduceCount(_, _)
ReduceCount(shares, ids) ==
    IF ids = {}
    THEN 0
    ELSE LET id == CHOOSE x \in ids : TRUE
         IN  shares[id] + ReduceCount(shares, ids \ {id})

countResourceShares(r, tp) ==
    ReduceCount([id \in DOMAIN tp |-> SharesOfTask(tp[id], r)], DOMAIN tp)

AuthValidateResourceAllocation(taskId, resourceId, tp) ==
    IF resourceId.kind = "none"
    THEN [isValid |-> FALSE, message |-> "Missing required parameters"]
    ELSE LET found == FindResource(resourceId)
         IN  IF found = {}
             THEN [isValid |-> FALSE, message |-> "Resource does not exist"]
             ELSE LET resource == CHOOSE r \in found : TRUE
                      isAvailable == AuthIsResourceAvailable(resource.id, taskId, tp)
                  IN  IF resource.isShared
                      THEN IF countResourceShares(resource.id, tp) >= MaxSharesOr1(resource)
                           THEN [isValid |-> FALSE,
                                 message |-> "Resource sharing limit reached"]
                           ELSE [isValid |-> TRUE, message |-> ""]
                      ELSE [isValid |-> isAvailable,
                            message |-> IF isAvailable THEN ""
                                        ELSE "Resource is already occupied by another task"]

(***************************************************************************)
(* components/task/TaskPropertiesPanel.js: isResourceAvailable             *)
(***************************************************************************)
\* what one task adds to currentShares in the panel's isResourceAvailable
PanelSharesOfTask(task, r) ==
    (IF task.resourceId.kind = "one" /\ task.resourceId.id = r THEN 1 ELSE 0)
    + Cardinality(RolesListing(task, r))

PanelCurrentShares(r, tp) ==
    ReduceCount([id \in DOMAIN tp |-> PanelSharesOfTask(tp[id], r)], DOMAIN tp)

PanelIsResourceAvailable(r, excludeTaskId, tp) ==
    LET usedByCurrent ==
            /\ excludeTaskId \in DOMAIN tp
            /\ \/ tp[excludeTaskId].resourceId.kind = "one"
                    /\ tp[excludeTaskId].resourceId.id = r
               \/ RolesListing(tp[excludeTaskId], r) # {}
        isUsedInOtherTasks ==
            \E id \in DOMAIN tp :
                /\ id # excludeTaskId
                /\ \/ tp[id].resourceId.kind = "one" /\ tp[id].resourceId.id = r
                   \/ RolesListing(tp[id], r) # {}
    IN  IF usedByCurrent
        THEN TRUE
        ELSE IF r \notin RegisteredIds
        THEN FALSE
        ELSE LET resource == CHOOSE x \in resources : x.id = r
             IN  IF resource.isShared
                 THEN PanelCurrentShares(r, tp) < MaxSharesOr1(resource)
                 ELSE ~isUsedInOtherTasks

(***************************************************************************)
(* Task maps handed to the allocation validators                           *)
(***************************************************************************)
Task(at, role, res, rr) ==
    [allocationType |-> at, roleId |-> role, resourceId |-> res, roleResources |-> rr]

UnboundTask == Task("none", NoRole, NoResource, NoRoleResources)

NonEmptySubsets(S) == SUBSET S \ {{}}

\* the resources named anywhere in a roleResources object
UnionOfLists(rr) == UNION {rr.lists[q] : q \in rr.keys}

\* the shapes a task's binding takes: none, 1:1 (one id), 1:n (an array),
\* n:n (roleResources, with or without the flattened array in resourceId)
BindingShapes ==
    {UnboundTask}
    \cup {Task("1:1", OneRole(1), One(r), NoRoleResources) : r \in ResourceIds}
    \cup {Task("1:n", OneRole(1), List(S), NoRoleResources) : S \in NonEmptySubsets(RegisteredIds)}
    \cup {Task("n:n", RoleList(TaskRoles), NoResource, RoleResources(f, TaskRoles)) :
            f \in [TaskRoles -> {{r} : r \in RegisteredIds}]}
    \cup {Task("n:n", RoleList(TaskRoles), List(UnionOfLists(RoleResources(f, TaskRoles))),
               RoleResources(f, TaskRoles)) :
            f \in [TaskRoles -> {{r} : r \in RegisteredIds}]}

NoAllocCall ==
    [fn |-> "none", resourceId |-> NoResource, taskId |-> NULL, isValid |-> FALSE, count |-> 0]

CallValidateResourceAllocation(resourceId, taskId) ==
    /\ allocCall = NoAllocCall
    /\ allocCall' = [fn |-> "validateResourceAllocation",
                     resourceId |-> resourceId, taskId |-> taskId,
                     isValid |-> validateResourceAllocation(resourceId, taskId, taskProperties),
                     count |-> 0]
    /\ UNCHANGED <<taskProperties, chainVars, panelVars, roleVars, editorVars>>

CallAuthValidateResourceAllocation(taskId, resourceId) ==
    /\ allocCall = NoAllocCall
    /\ allocCall' = [fn |-> "AuthorizationService.validateResourceAllocation",
                     resourceId |-> resourceId, taskId |-> taskId,
                     isValid |-> AuthValidateResourceAllocation(taskId, resourceId,
                                                                taskProperties).isValid,
                     count |-> 0]
    /\ UNCHANGED <<taskProperties, chainVars, panelVars, roleVars, editorVars>>

CallCountResourceShares(r) ==
    /\ allocCall = NoAllocCall
    /\ allocCall' = [fn |-> "AuthorizationService.countResourceShares",
                     resourceId |-> One(r), taskId |-> NULL,
                     isValid |-> FALSE,
                     count |-> countResourceShares(r, taskProperties)]
    /\ UNCHANGED <<taskProperties, chainVars, panelVars, roleVars, editorVars>>

CallPanelIsResourceAvailable(r, taskId) ==
    /\ allocCall = NoAllocCall
    /\ allocCall' = [fn |-> "isResourceAvailable",
                     resourceId |-> One(r), taskId |-> taskId,
                     isValid |-> PanelIsResourceAvailable(r, taskId, taskProperties),
                     count |-> PanelCurrentShares(r, taskProperties)]
    /\ UNCHANGED <<taskProperties, chainVars, panelVars, roleVars, editorVars>>

\* TaskPropertiesPanel.getAvailableResources: whether the entry of resource r
\* is disabled (status "occupied") while the task selected is selected
PanelResourceDisabled(r, selected, tp) ==
    LET resource == CHOOSE x \in resources : x.id = r
        isAllocated ==
            \E taskId \in DOMAIN tp : taskId # selected /\ SameResourceId(tp[taskId], One(r))
        currentShares ==
            Cardinality({taskId \in DOMAIN tp : SameResourceId(tp[taskId], One(r))})
    IN  IF resource.isShared
        THEN currentShares >= MaxSharesOr1(resource)
        ELSE isAllocated

\* useTaskTreeMonitor.getAvailableResources: whether resource r passes the
\* filter while the monitor shows the task selected; resourceAllocations is
\* keyed by task.resourceId, and an array is a key no resource id equals
MonitorResourceAvailable(r, selected, tp) ==
    LET resource == CHOOSE x \in resources : x.id = r
        tasks == {taskId \in DOMAIN tp : SameResourceId(tp[taskId], One(r))}
    IN  IF resource.isShared
        THEN Cardinality(tasks) < MaxSharesOr1(resource)
        ELSE tasks = {} \/ selected \in tasks

CallGetAvailableResources(r, taskId) ==
    /\ allocCall = NoAllocCall
    /\ allocCall' = [fn |-> "getAvailableResources",
                     resourceId |-> One(r), taskId |-> taskId,
                     isValid |-> ~PanelResourceDisabled(r, taskId, taskProperties),
                     count |-> 0]
    /\ UNCHANGED <<taskProperties, chainVars, panelVars, roleVars, editorVars>>

CallMonitorGetAvailableResources(r, taskId) ==
    /\ allocCall = NoAllocCall
    /\ allocCall' = [fn |-> "useTaskTreeMonitor.getAvailableResources",
                     resourceId |-> One(r), taskId |-> taskId,
                     isValid |-> MonitorResourceAvailable(r, taskId, taskProperties),
                     count |-> 0]
    /\ UNCHANGED <<taskProperties, chainVars, panelVars, roleVars, editorVars>>

\* ChangePatternEditor's own validateResourceAllocation(taskId, allocation).
\* An argument is a string (an id) or an allocation object {roleId, resourceId}
IdArgument(id) == [kind |-> "id", id |-> id, roleId |-> NoRole, resourceId |-> NoResource]
AllocationArgument(roleId, resourceId) ==
    [kind |-> "allocation", id |-> NULL, roleId |-> roleId, resourceId |-> resourceId]

\* taskProperties[x]: an id is looked up as a key, an object is no key
HasTaskKey(tp, argument) == argument.kind = "id" /\ argument.id \in DOMAIN tp

\* x.resourceId: the field of an allocation object, undefined on a string
ResourceIdField(argument) ==
    IF argument.kind = "allocation" THEN argument.resourceId ELSE NoResource

EditorValidateResourceAllocation(taskId, allocation, tp) ==
    IF ~HasTaskKey(tp, taskId)
    THEN FALSE
    ELSE LET found == FindResource(ResourceIdField(allocation))
         IN  IF found = {}
             THEN FALSE
             ELSE LET resource == CHOOSE r \in found : TRUE
                      allocatedCount ==
                          Cardinality({id \in DOMAIN tp :
                              /\ SameResourceId(tp[id], ResourceIdField(allocation))
                              /\ id # taskId.id})
                  IN  IF resource.isShared
                      THEN allocatedCount < MaxSharesOr1(resource)
                      ELSE allocatedCount = 0

\* handleResourceAllocation(taskId, allocation): the validator is called as
\* validateResourceAllocation(allocation.resourceId, taskId, taskProperties,
\* resources), so its taskId is the resource id and its allocation the task id
handleResourceAllocation(taskId, allocation) ==
    /\ allocCall = NoAllocCall
    /\ LET isValid == EditorValidateResourceAllocation(
                          IdArgument(allocation.resourceId.id), IdArgument(taskId),
                          taskProperties)
       IN  /\ allocCall' = [fn |-> "handleResourceAllocation",
                            resourceId |-> allocation.resourceId, taskId |-> taskId,
                            isValid |-> isValid, count |-> 0]
           /\ taskProperties' =
                  IF isValid
                  THEN \* handleTaskOperation("update", {id, roleId, resourceId})
                       [taskProperties EXCEPT ![taskId].roleId = allocation.roleId,
                                              ![taskId].resourceId = allocation.resourceId]
                  ELSE \* "Resource is not available for allocation"
                       taskProperties
    /\ UNCHANGED <<chainVars, panelVars, roleVars, editorVars>>

ValidateInit ==
    /\ taskProperties \in [TaskIds -> BindingShapes]
    /\ allocCall = NoAllocCall

ValidateNext ==
    \/ \E r \in ResourceIds, t \in TaskIds : CallValidateResourceAllocation(One(r), t)
    \/ \E r \in ResourceIds, t \in TaskIds : CallAuthValidateResourceAllocation(t, One(r))
    \/ \E r \in RegisteredIds : CallCountResourceShares(r)
    \/ \E r \in RegisteredIds, t \in TaskIds : CallPanelIsResourceAvailable(r, t)
    \/ \E r \in RegisteredIds, t \in TaskIds : CallGetAvailableResources(r, t)
    \/ \E r \in ResourceIds, t \in TaskIds :
           handleResourceAllocation(t, AllocationArgument(OneRole(1), One(r)))
    \/ \E r \in RegisteredIds, t \in TaskIds : CallMonitorGetAvailableResources(r, t)

(***************************************************************************)
(* components/task/TaskPropertiesPanel.js, with the editor's               *)
(* handleTaskPropertiesChange as onTaskPropertiesChange                    *)
(***************************************************************************)
MaxPanelSteps == 3
MaxPanelTasks == 2
\* the tasks on the canvas while the panel is open
PanelTaskIds == 1..MaxPanelTasks

\* values handed to the handlers
RoleValues ==
    {OneRole(q) : q \in TaskRoles} \cup {RoleList(Q) : Q \in NonEmptySubsets(TaskRoles)}
ResourceValues ==
    {One(r) : r \in RegisteredIds} \cup {List(S) : S \in NonEmptySubsets(RegisteredIds)}

\* taskProperties[id] || {}
TaskOrEmpty(tp, id) == IF id \in DOMAIN tp THEN tp[id] ELSE UnboundTask

\* const currentTask = selectedElement ? taskProperties[selectedElement.id] || {} : {}
CurrentTaskOf(tp, sel) == IF sel = NULL THEN UnboundTask ELSE TaskOrEmpty(tp, sel)

\* currentTask?.id: the id field of the stored task, undefined without one
CurrentTaskId(tp, sel) == IF sel # NULL /\ sel \in DOMAIN tp THEN sel ELSE NULL

\* handleTaskPropertiesChange(taskId, properties): the properties replace the
\* fields of the stored task (every field modelled here is among them)
handleTaskPropertiesChange(tp, taskId, properties) ==
    [id \in DOMAIN tp \cup {taskId} |-> IF id = taskId THEN properties ELSE tp[id]]

\* the editing copy of a task; it has no roleResources field
LoadEditingData(task) ==
    [allocationType |-> IF task.allocationType # "none" THEN task.allocationType ELSE "1:1",
     roleId         |-> task.roleId,
     resourceId     |-> task.resourceId,
     roleResources  |-> NoRoleResources]

\* the two effects that run after a render with a new task map or selection:
\*   [currentTask]:     setAllocationType(currentTask.allocationType) when set
\*   [currentTask?.id]: setEditingData(copy of currentTask)
PanelEffects(tp, sel) ==
    LET task == CurrentTaskOf(tp, sel)
    IN  /\ allocationType' =
               IF task.allocationType # "none" THEN task.allocationType ELSE allocationType
        /\ editingData' =
               IF CurrentTaskId(tp, sel) # CurrentTaskId(taskProperties, selectedElement)
               THEN LoadEditingData(task)
               ELSE editingData

PanelFrame == UNCHANGED <<allocCall, chainVars, roleVars, editorVars>>

NoPanelCall ==
    [op |-> "none", taskId |-> NULL, accepted |-> FALSE, resources |-> NoResource]

\* a handler ran: counted, and its outcome kept in panelCall
PanelStep(op, taskId, accepted, res) ==
    /\ panelSteps < MaxPanelSteps
    /\ panelSteps' = panelSteps + 1
    /\ panelCall' = [op |-> op, taskId |-> taskId, accepted |-> accepted, resources |-> res]
    /\ PanelFrame

\* the editor selects a task: the panel gets a new selectedElement
SelectElement(t) ==
    /\ t # selectedElement
    /\ selectedElement' = t
    /\ PanelEffects(taskProperties, t)
    /\ UNCHANGED <<taskProperties, isEditing, panelSteps, panelCall>>
    /\ PanelFrame

\* the Edit / Cancel Edit link
ToggleEditing ==
    /\ isEditing' = ~isEditing
    /\ UNCHANGED <<taskProperties, selectedElement, editingData, allocationType,
                   panelSteps, panelCall>>
    /\ PanelFrame

handlePropertyChange(property, value) ==
    /\ selectedElement # NULL
    /\ LET currentTask == CurrentTaskOf(taskProperties, selectedElement)
           updatedTask ==
               CASE property = "allocationType" -> [currentTask EXCEPT !.allocationType = value]
                 [] property = "roleId"         -> [currentTask EXCEPT !.roleId = value]
                 [] property = "resourceId"     -> [currentTask EXCEPT !.resourceId = value]
       IN  taskProperties' =
               handleTaskPropertiesChange(taskProperties, selectedElement, updatedTask)
    /\ PanelStep("handlePropertyChange", selectedElement, TRUE,
                 IF property = "resourceId" THEN value ELSE NoResource)
    /\ PanelEffects(taskProperties', selectedElement)
    /\ UNCHANGED <<selectedElement, isEditing>>

\* onChange of the resource select while editing: an array in 1:n mode, one id
\* otherwise (for n:n the select is replaced by the per-role selects)
SetEditingResource(value) ==
    /\ isEditing
    /\ selectedElement # NULL
    /\ editingData.allocationType # "n:n"
    /\ value.kind = "list" <=> editingData.allocationType = "1:n"
    /\ editingData' = [editingData EXCEPT !.resourceId = value]
    /\ PanelStep("setEditingData", selectedElement, TRUE, value)
    /\ UNCHANGED <<taskProperties, selectedElement, allocationType, isEditing>>

handleRoleChange(value) ==
    /\ selectedElement # NULL
    \* value.forEach needs an array when the allocation type is n:n
    /\ allocationType = "n:n" => value.kind = "list"
    /\ LET currentTask == CurrentTaskOf(taskProperties, selectedElement)
           updatedTask ==
               [currentTask EXCEPT
                   !.roleId = value,
                   !.roleResources =
                       IF allocationType = "n:n"
                       THEN RoleResources([q \in TaskRoles |-> {}], value.ids)
                       ELSE currentTask.roleResources]
       IN  taskProperties' =
               handleTaskPropertiesChange(taskProperties, selectedElement, updatedTask)
    /\ PanelStep("handleRoleChange", selectedElement, TRUE, NoResource)
    /\ PanelEffects(taskProperties', selectedElement)
    /\ UNCHANGED <<selectedElement, isEditing>>

handleResourceChange(roleId, value) ==
    /\ selectedElement # NULL
    /\ LET currentTask == CurrentTaskOf(taskProperties, selectedElement)
           old == currentTask.roleResources
           updatedRoleResources ==
               RoleResources([q \in TaskRoles |-> IF q = roleId THEN value ELSE old.lists[q]],
                             old.keys \cup {roleId})
       IN  taskProperties' =
               handleTaskPropertiesChange(taskProperties, selectedElement,
                                          [currentTask EXCEPT !.roleResources = updatedRoleResources])
    /\ PanelStep("handleResourceChange", selectedElement, TRUE, List(value))
    /\ PanelEffects(taskProperties', selectedElement)
    /\ UNCHANGED <<selectedElement, isEditing>>

ResourcesForValidationFromResourceId(ed) == ed.resourceId

\* resourcesForValidation of handleSaveChanges
ResourcesForValidation(ed) ==
    IF ed.allocationType = "n:n"
    THEN IF ed.roleResources.defined THEN List(UnionOfLists(ed.roleResources)) ELSE List({})
    ELSE ed.resourceId

handleSaveChanges ==
    /\ selectedElement # NULL
    /\ LET resourcesForValidation == ResourcesForValidation(editingData)
       IN  IF editingData.allocationType = "n:n" /\ resourcesForValidation.ids = {}
           THEN \* "Please allocate resources for roles"
                /\ PanelStep("handleSaveChanges", selectedElement, FALSE, resourcesForValidation)
                /\ UNCHANGED <<taskProperties, editingData, allocationType, isEditing>>
           ELSE IF ~validateResourceAllocation(resourcesForValidation, selectedElement,
                                               taskProperties)
           THEN \* "Invalid resource allocation"
                /\ PanelStep("handleSaveChanges", selectedElement, FALSE, resourcesForValidation)
                /\ UNCHANGED <<taskProperties, editingData, allocationType, isEditing>>
           ELSE /\ taskProperties' =
                       handleTaskPropertiesChange(taskProperties, selectedElement,
                           Task(editingData.allocationType, editingData.roleId,
                                resourcesForValidation, editingData.roleResources))
                /\ isEditing' = FALSE
                /\ PanelStep("handleSaveChanges", selectedElement, TRUE, resourcesForValidation)
                /\ PanelEffects(taskProperties', selectedElement)
    /\ UNCHANGED selectedElement

\* handleDeleteTask(taskId): onTaskPropertiesChange(taskId, null) merges
\* nothing into the stored task, then success is reported
handleDeleteTask(taskId) ==
    /\ taskProperties' =
           handleTaskPropertiesChange(taskProperties, taskId, TaskOrEmpty(taskProperties, taskId))
    /\ PanelStep("handleDeleteTask", taskId, TRUE, NoResource)
    /\ PanelEffects(taskProperties', selectedElement)
    /\ UNCHANGED <<selectedElement, isEditing>>

\* the editor's handleTaskOperation("delete", {id}): the entry is removed
DeleteTaskOperation(taskId) ==
    /\ taskId \in DOMAIN taskProperties
    /\ taskProperties' = [id \in DOMAIN taskProperties \ {taskId} |-> taskProperties[id]]
    /\ PanelStep("deleteTask", taskId, TRUE, NoResource)
    /\ PanelEffects(taskProperties', selectedElement)
    /\ UNCHANGED <<selectedElement, isEditing>>

PanelInit ==
    /\ taskProperties = [t \in PanelTaskIds |-> UnboundTask]
    /\ allocCall = NoAllocCall
    /\ selectedElement = NULL
    /\ editingData = LoadEditingData(UnboundTask)
    /\ allocationType = "1:1"
    /\ isEditing = FALSE
    /\ panelSteps = 0
    /\ panelCall = NoPanelCall

\* handleSaveChanges applied to a panel in the middle of an edit: any task map,
\* any selected task, any editing copy the selects can produce
SaveInit ==
    /\ taskProperties \in [PanelTaskIds -> BindingShapes]
    /\ allocCall = NoAllocCall
    /\ selectedElement \in PanelTaskIds
    /\ editingData \in {[allocationType |-> at, roleId |-> role, resourceId |-> res,
                          roleResources |-> NoRoleResources] :
                            at \in {"1:1", "1:n", "n:n"},
                            role \in RoleValues \cup {NoRole},
                            res \in ResourceValues \cup {NoResource}}
    /\ allocationType =
           IF taskProperties[selectedElement].allocationType # "none"
           THEN taskProperties[selectedElement].allocationType
           ELSE "1:1"
    /\ isEditing = TRUE
    /\ panelSteps = 0
    /\ panelCall = NoPanelCall

SaveNext == panelCall = NoPanelCall /\ handleSaveChanges

PanelNext ==
    \/ \E t \in PanelTaskIds : SelectElement(t)
    \/ ToggleEditing
    \/ \E v \in {"1:1", "1:n", "n:n"} : handlePropertyChange("allocationType", v)
    \/ \E v \in RoleValues : handlePropertyChange("roleId", v)
    \/ \E v \in ResourceValues \cup {NoResource} : handlePropertyChange("resourceId", v)
    \/ \E v \in ResourceValues : SetEditingResource(v)
    \/ \E v \in RoleValues : handleRoleChange(v)
    \/ \E q \in TaskRoles, S \in NonEmptySubsets(RegisteredIds) : handleResourceChange(q, S)
    \/ handleSaveChanges
    \/ \E t \in PanelTaskIds : handleDeleteTask(t)
    \/ \E t \in PanelTaskIds : DeleteTaskOperation(t)

(***************************************************************************)
(* hooks/useRole.js (with RoleService), function_modules/RoleManager.js    *)
(* and store/roleSlice.js                                                  *)
(***************************************************************************)
MaxRoles == 2
MaxRoleNames == 2
\* the names typed into the form; NULL is the empty input
RoleNames == 1..MaxRoleNames

\* the id of a stored role: response.data.id || `role_${name}`
BackendId(k) == [src |-> "backend", n |-> k]
FallbackId(name) == [src |-> "role_", n |-> name]
NoRoleId == [src |-> "none", n |-> NULL]
NoSelectedRole == [id |-> NoRoleId, name |-> NULL, parent_role |-> NULL]

StoredNames(rs) == {rs[i].name : i \in 1..Len(rs)}
StoredIds(rs) == {rs[i].id : i \in 1..Len(rs)}

\* roles.find((r) => r.name === roleName): the first match, or none
HasRole(rs, name) == \E i \in 1..Len(rs) : rs[i].name = name
FindRole(rs, name) ==
    rs[CHOOSE i \in 1..Len(rs) :
           rs[i].name = name /\ \A j \in 1..(i - 1) : rs[j].name # name]

\* checkCycle(roleName, visited) of validateRoleHierarchy
RECURSIVE checkCycle(_, _, _)
checkCycle(rs, name, visited) ==
    IF name \in visited
    THEN FALSE
    ELSE IF HasRole(rs, name) /\ FindRole(rs, name).parent_role # NULL
         THEN checkCycle(rs, FindRole(rs, name).parent_role, visited \cup {name})
         ELSE TRUE

\* validateRoleHierarchy(roleData): walks from roleData.name along the stored
\* parent links
validateRoleHierarchy(rs, roleData) == checkCycle(rs, roleData.name, {})

\* roleSlice reducers
addRole(rs, payload) == Append(rs, payload)
deleteRole(rs, id) == SelectSeq(rs, LAMBDA role : role.id # id)
updateRole(rs, id, changes) ==
    IF \E i \in 1..Len(rs) : rs[i].id = id
    THEN LET roleIndex == CHOOSE i \in 1..Len(rs) :
                              rs[i].id = id /\ \A j \in 1..(i - 1) : rs[j].id # id
         IN  [rs EXCEPT ![roleIndex] =
                 [id |-> rs[roleIndex].id, name |-> changes.name,
                  parent_role |-> changes.parent_role]]
    ELSE rs

\* the handlers run between calls of getRolePermissions, never inside one
RoleFrame ==
    /\ permStack = <<>>
    /\ UNCHANGED <<chainVars, allocVars, panelVars, editorVars, permCall, permStack, hierarchyCall>>

\* the number of stored roles of the permission and tree builders
MaxPermRoles == 3

\* a tree-data array: the root nodes in order and, for every node key, the
\* keys of its children array in order
HierarchyKeys == 1..(MaxPermRoles + 1)
NoChildren == [k \in HierarchyKeys |-> <<>>]
NoHierarchyCall == [fn |-> "none", roots |-> <<>>, children |-> NoChildren]

NoRoleCall ==
    [op |-> "none", name |-> NULL, parent_role |-> NULL, store |-> <<>>,
     rejected |-> FALSE, serviceCalled |-> FALSE, dispatched |-> FALSE]

RoleCall(op, name, parent, rejected, serviceCalled, dispatched) ==
    [op |-> op, name |-> name, parent_role |-> parent, store |-> roles,
     rejected |-> rejected, serviceCalled |-> serviceCalled, dispatched |-> dispatched]

\* resetForm()
resetForm ==
    /\ roleName' = NULL
    /\ parentRole' = NULL
    /\ editMode' = FALSE
    /\ selectedRole' = NoSelectedRole

\* the Role Name input
setRoleName(value) ==
    /\ value # roleName
    /\ roleName' = value
    /\ UNCHANGED <<roles, parentRole, editMode, selectedRole, roleCall>>
    /\ RoleFrame

\* the parent Select: one of the stored role names, or cleared
setParentRole(value) ==
    /\ value \in StoredNames(roles) \cup {NULL}
    /\ value # parentRole
    /\ parentRole' = value
    /\ UNCHANGED <<roles, roleName, editMode, selectedRole, roleCall>>
    /\ RoleFrame

\* the Edit link of a table row
openEditMode(role) ==
    /\ editMode' = TRUE
    /\ selectedRole' = role
    /\ roleName' = role.name
    /\ parentRole' = role.parent_role
    /\ UNCHANGED <<roles, roleCall>>
    /\ RoleFrame

\* RoleManager.handleSubmit -> handleAddOrEditRole(roleData); serviceOk and
\* backendId are what RoleService answers
handleAddOrEditRole(serviceOk, backendId) ==
    /\ roleName # NULL
    /\ LET roleData == [name |-> roleName, parent_role |-> parentRole]
           formattedData == [name |-> roleData.name, parent_role |-> parentRole]
       IN  IF roleData.parent_role # NULL /\ ~validateRoleHierarchy(roles, roleData)
           THEN \* "Invalid role hierarchy: Circular inheritance detected"
                /\ roleCall' = RoleCall("handleAddOrEditRole", roleData.name,
                                        roleData.parent_role, TRUE, FALSE, FALSE)
                /\ UNCHANGED <<roles, roleName, parentRole, editMode, selectedRole>>
           ELSE IF ~serviceOk
           THEN \* RoleService.updateRole / createRole throws
                /\ roleCall' = RoleCall("handleAddOrEditRole", roleData.name,
                                        roleData.parent_role, FALSE, TRUE, FALSE)
                /\ UNCHANGED <<roles, roleName, parentRole, editMode, selectedRole>>
           ELSE /\ IF editMode
                   THEN roles' = updateRole(roles, selectedRole.id, formattedData)
                   ELSE /\ Len(roles) < MaxRoles
                        /\ roles' = addRole(roles,
                               [id |-> IF backendId # NULL
                                       THEN BackendId(backendId)
                                       ELSE FallbackId(formattedData.name),
                                name |-> formattedData.name,
                                parent_role |-> parentRole])
                /\ roleCall' = RoleCall("handleAddOrEditRole", roleData.name,
                                        roleData.parent_role, FALSE, TRUE, TRUE)
                /\ resetForm
    /\ RoleFrame

\* handleDeleteRole(record.name), the Delete link of a table row
handleDeleteRole(roleNameOrId, serviceOk) ==
    /\ roleCall' = RoleCall("handleDeleteRole", roleNameOrId, NULL, FALSE, TRUE,
                            serviceOk /\ HasRole(roles, roleNameOrId))
    /\ roles' = IF serviceOk /\ HasRole(roles, roleNameOrId)
                THEN deleteRole(roles, FindRole(roles, roleNameOrId).id)
                ELSE roles
    /\ UNCHANGED <<roleName, parentRole, editMode, selectedRole>>
    /\ RoleFrame

\* the smallest id the backend has not handed to a stored role
FreshBackendId(rs) ==
    CHOOSE k \in 1..(MaxRoles + 1) :
        /\ BackendId(k) \notin StoredIds(rs)
        /\ \A j \in 1..(k - 1) : BackendId(j) \in StoredIds(rs)

\* getRolePermissions step by step: permStack holds one frame per call in
\* progress, with the index of the child the forEach visits next
MaxPermDepth == 3

ChildRolesOf(rs, name) == SelectSeq(rs, LAMBDA r : r.parent_role = name)

\* a component calls getRolePermissions(record.name) for a stored role
StartGetRolePermissions(name) ==
    /\ permStack = <<>>
    /\ HasRole(roles, name)
    /\ permStack' = <<[name |-> name, next |-> 1]>>
    /\ UNCHANGED <<roles, roleName, parentRole, editMode, selectedRole, roleCall, permCall, hierarchyCall>>
    /\ UNCHANGED <<chainVars, allocVars, panelVars, editorVars>>

\* childRoles.forEach: the innermost call calls getRolePermissions(childRole.name)
EnterChildRole ==
    /\ permStack # <<>>
    /\ Len(permStack) < MaxPermDepth
    /\ LET top == permStack[Len(permStack)]
           childRoles == ChildRolesOf(roles, top.name)
       IN  /\ top.next <= Len(childRoles)
           /\ permStack' =
                  Append([permStack EXCEPT ![Len(permStack)].next = top.next + 1],
                         [name |-> childRoles[top.next].name, next |-> 1])
    /\ UNCHANGED <<roles, roleName, parentRole, editMode, selectedRole, roleCall, permCall, hierarchyCall>>
    /\ UNCHANGED <<chainVars, allocVars, panelVars, editorVars>>

\* the innermost call has visited all its children and returns
ReturnRolePermissions ==
    /\ permStack # <<>>
    /\ LET top == permStack[Len(permStack)]
       IN  top.next > Len(ChildRolesOf(roles, top.name))
    /\ permStack' = SubSeq(permStack, 1, Len(permStack) - 1)
    /\ UNCHANGED <<roles, roleName, parentRole, editMode, selectedRole, roleCall, permCall, hierarchyCall>>
    /\ UNCHANGED <<chainVars, allocVars, panelVars, editorVars>>

RoleInit ==
    /\ roles = <<>>
    /\ roleName = NULL
    /\ parentRole = NULL
    /\ editMode = FALSE
    /\ selectedRole = NoSelectedRole
    /\ roleCall = NoRoleCall
    /\ permCall = [fn |-> "none", role |-> NULL, direct |-> <<>>, inherited |-> <<>>]
    /\ permStack = <<>>
    /\ hierarchyCall = NoHierarchyCall

RoleNext ==
    \/ \E n \in RoleNames \cup {NULL} : setRoleName(n)
    \/ \E n \in RoleNames \cup {NULL} : setParentRole(n)
    \/ \E i \in 1..Len(roles) : openEditMode(roles[i])
    \/ \E ok \in BOOLEAN, k \in {NULL, FreshBackendId(roles)} : handleAddOrEditRole(ok, k)
    \/ \E i \in 1..Len(roles), ok \in BOOLEAN : handleDeleteRole(roles[i].name, ok)
    \/ \E i \in 1..Len(roles) : StartGetRolePermissions(roles[i].name)
    \/ EnterChildRole
    \/ ReturnRolePermissions

(***************************************************************************)
(* hooks/useRole.js: getRolePermissions                                    *)
(***************************************************************************)
Public(res) == [resource |-> res, is_private |-> FALSE]
Private(res) == [resource |-> res, is_private |-> TRUE]

\* role.permissions values: lists of {resource, is_private}
PermissionLists ==
    {<<>>, <<Public(1)>>, <<Private(1)>>, <<Public(1), Private(2)>>,
     <<Private(1), Public(2)>>, <<Public(1), Public(2)>>}

\* array.filter((perm, index, self) =>
\*     index === self.findIndex((p) => p.resource === perm.resource))
RECURSIVE FilterFirstByResource(_, _)
FilterFirstByResource(perms, index) ==
    IF index > Len(perms)
    THEN <<>>
    ELSE (IF \A j \in 1..(index - 1) : perms[j].resource # perms[index].resource
          THEN <<perms[index]>>
          ELSE <<>>) \o FilterFirstByResource(perms, index + 1)

RECURSIVE getRolePermissions(_, _)
RECURSIVE CollectFromChildren(_, _, _)
RECURSIVE CollectFromChildrenWithPrivate(_, _, _)

CollectFromChildrenWithPrivate(rs, childRoles, index) ==
    IF index > Len(childRoles)
    THEN <<>>
    ELSE LET childPerms == getRolePermissions(rs, childRoles[index].name)
         IN  childPerms.direct
                 \o childPerms.inherited
                 \o CollectFromChildrenWithPrivate(rs, childRoles, index + 1)

\* childRoles.forEach((childRole) => ...), from the child at index on
CollectFromChildren(rs, childRoles, index) ==
    IF index > Len(childRoles)
    THEN <<>>
    ELSE LET childPerms == getRolePermissions(rs, childRoles[index].name)
         IN  SelectSeq(childPerms.direct, LAMBDA perm : ~perm.is_private)
                 \o childPerms.inherited
                 \o CollectFromChildren(rs, childRoles, index + 1)

\* getRolePermissions(name) over the stored roles rs; the recursion follows
\* the child links, so it returns only when no role below name is its own
\* descendant
getRolePermissions(rs, name) ==
    IF ~HasRole(rs, name)
    THEN [direct |-> <<>>, inherited |-> <<>>]
    ELSE LET role == FindRole(rs, name)
             childRoles == SelectSeq(rs, LAMBDA r : r.parent_role = name)
         IN  [direct    |-> role.permissions,
              inherited |-> FilterFirstByResource(
                                CollectFromChildren(rs, childRoles, 1), 1)]

NoPermCall == [fn |-> "none", role |-> NULL, direct |-> <<>>, inherited |-> <<>>]

\* the roles reached from name by one or more parent links, the stored parent
\* links being those of the function parentOf
RECURSIVE ParentChain(_, _, _)
ParentChain(parentOf, name, seen) ==
    IF parentOf[name] = NULL \/ parentOf[name] \in seen
    THEN seen
    ELSE ParentChain(parentOf, parentOf[name], seen \cup {parentOf[name]})

\* parent assignments without a cycle: what the store holds when every edit
\* kept the hierarchy a forest
ForestParents ==
    {parentOf \in [1..MaxPermRoles -> (1..MaxPermRoles) \cup {NULL}] :
        \A n \in 1..MaxPermRoles : n \notin ParentChain(parentOf, n, {})}

\* a store of MaxPermRoles roles with distinct names
PermInit ==
    /\ \E parentOf \in ForestParents,
          perms \in [1..MaxPermRoles -> PermissionLists] :
            roles = [n \in 1..MaxPermRoles |->
                        [id |-> BackendId(n), name |-> n,
                         parent_role |-> parentOf[n], permissions |-> perms[n]]]
    /\ roleName = NULL
    /\ parentRole = NULL
    /\ editMode = FALSE
    /\ selectedRole = NoSelectedRole
    /\ roleCall = NoRoleCall
    /\ permCall = NoPermCall
    /\ permStack = <<>>
    /\ hierarchyCall = NoHierarchyCall

CallGetRolePermissions(name) ==
    /\ permCall = NoPermCall
    /\ permCall' = [fn |-> "getRolePermissions", role |-> name,
                    direct    |-> getRolePermissions(roles, name).direct,
                    inherited |-> getRolePermissions(roles, name).inherited]
    /\ UNCHANGED <<roles, roleName, parentRole, editMode, selectedRole, roleCall, permStack, hierarchyCall>>
    /\ UNCHANGED <<chainVars, allocVars, panelVars, editorVars>>

PermNext ==
    \/ \E name \in 1..(MaxPermRoles + 1) : CallGetRolePermissions(name)

(***************************************************************************)
(* The role tree: buildRoleHierarchy of the role manager, buildRoleHierarchy*)
(* of hooks/useRole.js and getRoleHierarchy of services/RoleService.js.     *)
(* A node is named by its key in roleMap, the role's name; its title shows  *)
(* the name and the permissions and takes no part in the tree's shape.      *)
(***************************************************************************)
\* the keys of roleMap in insertion order: each name at its first occurrence
RoleMapKeys(rs) ==
    LET idx == SelectSeq([i \in 1..Len(rs) |-> i],
                         LAMBDA i : /\ rs[i].name # NULL
                                    /\ \A j \in 1..(i - 1) : rs[j].name # rs[i].name)
    IN  [k \in 1..Len(idx) |-> rs[idx[k]].name]

\* roleMap.set(role.name, ...) / map[role.name] = ...: the last role of that
\* name is the one the map keeps
LastRoleNamed(rs, name) ==
    rs[CHOOSE i \in 1..Len(rs) :
           rs[i].name = name /\ \A j \in (i + 1)..Len(rs) : rs[j].name # name]

InRoleMap(rs, name) == \E i \in 1..Len(rs) : rs[i].name # NULL /\ rs[i].name = name

\* const roleOrder = ["Admin", "Manager", "Employee"], these names being 1, 2, 3
roleOrder == <<1, 2, 3>>

\* roleOrder.indexOf(name), counted from 0, -1 when absent
RoleOrderIndexOf(name) ==
    IF \E i \in 1..Len(roleOrder) : roleOrder[i] = name
    THEN (CHOOSE i \in 1..Len(roleOrder) : roleOrder[i] = name) - 1
    ELSE -1

\* treeData.sort((a, b) => aIndex - bIndex): a stable sort, here by insertion
RECURSIVE SortByRoleOrder(_)
SortByRoleOrder(keys) ==
    IF keys = <<>>
    THEN <<>>
    ELSE LET sorted == SortByRoleOrder(SubSeq(keys, 1, Len(keys) - 1))
             last == keys[Len(keys)]
             before == SelectSeq(sorted, LAMBDA k : RoleOrderIndexOf(k) <= RoleOrderIndexOf(last))
             after == SelectSeq(sorted, LAMBDA k : RoleOrderIndexOf(k) > RoleOrderIndexOf(last))
         IN  before \o <<last>> \o after

\* role manager: roleMap.forEach pushes a node to its parent's children when
\* parent_role is set and is a key of roleMap, and to treeData otherwise
buildRoleHierarchy(rs) ==
    LET keys == RoleMapKeys(rs)
        HasParentNode(k) ==
            LET parent == LastRoleNamed(rs, k).parent_role
            IN  parent # NULL /\ InRoleMap(rs, parent)
    IN  [roots |-> SortByRoleOrder(SelectSeq(keys, LAMBDA k : ~HasParentNode(k))),
         children |-> [p \in HierarchyKeys |->
                          SelectSeq(keys, LAMBDA k : /\ HasParentNode(k)
                                                     /\ LastRoleNamed(rs, k).parent_role = p)]]

\* the children arrays of useRole.js and RoleService.js: roles.forEach pushes
\* roleMap[role.name] to roleMap[role.parent].children for each stored role
\* whose parent is set and is a key of roleMap
ChildrenByRole(rs) ==
    [p \in HierarchyKeys |->
        LET pushed == SelectSeq(rs, LAMBDA r : /\ r.parent_role # NULL
                                               /\ InRoleMap(rs, r.parent_role)
                                               /\ r.parent_role = p)
        IN  [i \in 1..Len(pushed) |-> pushed[i].name]]

\* hooks/useRole.js: the roots are the nodes of roleMap that no stored role
\* of that name with a parent set stands behind
useRoleBuildRoleHierarchy(rs) ==
    [roots |-> SelectSeq(RoleMapKeys(rs),
                         LAMBDA k : ~\E i \in 1..Len(rs) :
                                        rs[i].name = k /\ rs[i].parent_role # NULL),
     children |-> ChildrenByRole(rs)]

\* services/RoleService.js: a role whose parent is unset or no key of roleMap
\* is pushed to hierarchy
getRoleHierarchy(rs) ==
    LET top == SelectSeq(rs, LAMBDA r : ~(r.parent_role # NULL /\ InRoleMap(rs, r.parent_role)))
    IN  [roots |-> [i \in 1..Len(top) |-> top[i].name],
         children |-> ChildrenByRole(rs)]

\* the parent links of a store in which no role is its own ancestor; a parent
\* may name a role the store does not hold (MaxPermRoles + 1)
RECURSIVE HierarchyParentChain(_, _, _)
HierarchyParentChain(parentOf, name, seen) ==
    IF name \notin DOMAIN parentOf \/ parentOf[name] = NULL \/ parentOf[name] \in seen
    THEN seen
    ELSE HierarchyParentChain(parentOf, parentOf[name], seen \cup {parentOf[name]})

HierarchyParents ==
    {parentOf \in [1..MaxPermRoles -> HierarchyKeys \cup {NULL}] :
        \A n \in 1..MaxPermRoles : n \notin HierarchyParentChain(parentOf, n, {})}

\* a store of MaxPermRoles roles with distinct names, in any order
HierarchyInit ==
    /\ \E parentOf \in HierarchyParents,
          order \in {f \in [1..MaxPermRoles -> 1..MaxPermRoles] :
                        \A i, j \in 1..MaxPermRoles : f[i] = f[j] => i = j} :
            roles = [i \in 1..MaxPermRoles |->
                        [id |-> BackendId(order[i]), name |-> order[i],
                         parent_role |-> parentOf[order[i]], permissions |-> <<>>]]
    /\ roleName = NULL
    /\ parentRole = NULL
    /\ editMode = FALSE
    /\ selectedRole = NoSelectedRole
    /\ roleCall = NoRoleCall
    /\ permCall = NoPermCall
    /\ permStack = <<>>
    /\ hierarchyCall = NoHierarchyCall

HierarchyFrame ==
    /\ UNCHANGED <<roles, roleName, parentRole, editMode, selectedRole, roleCall,
                   permCall, permStack>>
    /\ UNCHANGED <<chainVars, allocVars, panelVars, editorVars>>

CallBuildRoleHierarchy ==
    /\ hierarchyCall = NoHierarchyCall
    /\ hierarchyCall' = [fn |-> "buildRoleHierarchy",
                         roots |-> buildRoleHierarchy(roles).roots,
                         children |-> buildRoleHierarchy(roles).children]
    /\ HierarchyFrame

CallUseRoleBuildRoleHierarchy ==
    /\ hierarchyCall = NoHierarchyCall
    /\ hierarchyCall' = [fn |-> "useRole.buildRoleHierarchy",
                         roots |-> useRoleBuildRoleHierarchy(roles).roots,
                         children |-> useRoleBuildRoleHierarchy(roles).children]
    /\ HierarchyFrame

CallGetRoleHierarchy ==
    /\ hierarchyCall = NoHierarchyCall
    /\ hierarchyCall' = [fn |-> "getRoleHierarchy",
                         roots |-> getRoleHierarchy(roles).roots,
                         children |-> getRoleHierarchy(roles).children]
    /\ HierarchyFrame

HierarchyNext ==
    \/ CallBuildRoleHierarchy
    \/ CallUseRoleBuildRoleHierarchy
    \/ CallGetRoleHierarchy

(***************************************************************************)
(* ChangePatternEditor: the handlers that change taskProperties.  The      *)
(* component exists in two versions: "validated" calls                     *)
(* validateTaskOperation in handleTaskOperation and shows the task chain   *)
(* preview, "plain" has no validation and defers its selection updates.    *)
(***************************************************************************)
\* task.status; "none" is a task without the field
Statuses == {"pending", "in-progress", "completed", "failed"}

NoEntry == [present |-> FALSE, nextTaskId |-> NULL, status |-> "none"]

\* useState({})
EmptyTaskMap == [t \in TaskIds |-> NoEntry]

\* the taskProperties that handleTaskOperation of the validated version reads:
\* the callback is memoized with the dependencies [modelerRef], so it keeps the
\* value of the first render
StaleTaskProperties == EmptyTaskMap

\* the fields of taskData that the handlers pass on: name, nextTaskId, status
OpData(id, named, hasNext, next, hasStatus, status) ==
    [id |-> id, named |-> named,
     hasNext |-> hasNext, nextTaskId |-> IF hasNext THEN next ELSE NULL,
     hasStatus |-> hasStatus, status |-> IF hasStatus THEN status ELSE "none"]

\* { ...entry, ...taskData }
MergeTaskData(entry, taskData) ==
    [present    |-> TRUE,
     nextTaskId |-> IF taskData.hasNext THEN taskData.nextTaskId ELSE entry.nextTaskId,
     status     |-> IF taskData.hasStatus THEN taskData.status ELSE entry.status]

\* the setTaskProperties updater of the validated handleTaskOperation
ValidatedUpdater(prev, operation, taskData) ==
    CASE operation = "add" ->
             [prev EXCEPT ![taskData.id] =
                 [MergeTaskData(NoEntry, taskData) EXCEPT !.status = "pending"]]
      [] operation = "update" ->
             IF prev[taskData.id].present
             THEN [prev EXCEPT ![taskData.id] = MergeTaskData(prev[taskData.id], taskData)]
             ELSE prev
      [] operation = "delete" ->
             [t \in TaskIds |->
                 IF t = taskData.id
                 THEN NoEntry
                 ELSE IF prev[t].present /\ prev[t].nextTaskId = taskData.id
                 THEN [prev[t] EXCEPT !.nextTaskId = NULL]
                 ELSE prev[t]]
      [] OTHER -> prev

\* the setTaskProperties updater of the plain handleTaskOperation
PlainUpdater(prev, operation, taskData) ==
    CASE operation = "add" ->
             [prev EXCEPT ![taskData.id] = MergeTaskData(NoEntry, taskData)]
      [] operation = "update" ->
             [prev EXCEPT ![taskData.id] = MergeTaskData(prev[taskData.id], taskData)]
      [] operation = "delete" ->
             [prev EXCEPT ![taskData.id] = NoEntry]
      [] OTHER -> prev

NoTaskOpCall == [op |-> "none", id |-> NULL, refused |-> FALSE]

TaskOpFrame ==
    UNCHANGED <<chainVars, allocVars, panelVars, roleVars,
                patterns, patternName, editorRole, editorResource, patternCall>>

\* handleTaskOperation(operation, taskData) of the running version; handler
\* names the handler that called it
handleTaskOperation(handler, operation, taskData) ==
    IF editorVersion = "validated"
    THEN IF ~validateTaskOperation(operation, taskData, StaleTaskProperties)
         THEN \* message.error(validation.message)
              /\ editorTasks' = editorTasks
              /\ taskOpCall' = [op |-> handler, id |-> taskData.id, refused |-> TRUE]
         ELSE /\ editorTasks' = ValidatedUpdater(editorTasks, operation, taskData)
              /\ taskOpCall' = [op |-> handler, id |-> taskData.id, refused |-> FALSE]
    ELSE /\ editorTasks' = PlainUpdater(editorTasks, operation, taskData)
         /\ taskOpCall' = [op |-> handler, id |-> taskData.id, refused |-> FALSE]

\* handleAddTask: a shape with a new id is created and named `Task n`, the
\* task is added and the shape selected; the plain version answers the
\* selection with a deferred update, the validated one with an update at once
handleAddTask(id) ==
    /\ id \notin canvas
    /\ ~editorTasks[id].present
    /\ canvas' = canvas \cup {id}
    /\ handleTaskOperation("add", "add", OpData(id, TRUE, FALSE, NULL, FALSE, "none"))
    /\ pendingSelection' = IF editorVersion = "plain"
                           THEN pendingSelection \cup {id}
                           ELSE pendingSelection
    /\ UNCHANGED editorVersion
    /\ TaskOpFrame

\* selection.changed for a task shape: setTimeout(() => handleTaskOperation(
\* "update", {id, name}), 0) in the plain version, the same call at once in
\* the validated one
handleSelection(id) ==
    /\ id \in canvas
    /\ IF editorVersion = "plain"
       THEN /\ pendingSelection' = pendingSelection \cup {id}
            /\ taskOpCall' = [op |-> "select", id |-> id, refused |-> FALSE]
            /\ UNCHANGED editorTasks
       ELSE /\ handleTaskOperation("select", "update",
                                   OpData(id, TRUE, FALSE, NULL, FALSE, "none"))
            /\ UNCHANGED pendingSelection
    /\ UNCHANGED <<editorVersion, canvas>>
    /\ TaskOpFrame

\* the callback of a setTimeout of handleSelection runs; it still holds the
\* element it was scheduled for
RunDeferredSelection(id) ==
    /\ id \in pendingSelection
    /\ pendingSelection' = pendingSelection \ {id}
    /\ handleTaskOperation("deferred update", "update",
                           OpData(id, TRUE, FALSE, NULL, FALSE, "none"))
    /\ UNCHANGED <<editorVersion, canvas>>
    /\ TaskOpFrame

\* validated: handleTaskConnection(source, target) and handlePropertyChange
\* with a nextTaskId among the changes; plain: updateTaskConnection(source,
\* target), which returns early unless both shapes are in the registry
updateTaskConnection(sourceId, targetId) ==
    /\ sourceId \in canvas
    /\ IF editorVersion = "plain"
       THEN targetId \in canvas
       ELSE targetId \in canvas \cup {NULL}
    /\ handleTaskOperation("connect", "update",
                           OpData(sourceId, FALSE, TRUE, targetId, FALSE, "none"))
    /\ UNCHANGED <<editorVersion, canvas, pendingSelection>>
    /\ TaskOpFrame

\* handleDeleteTask(element): the shape and its connections are removed from
\* the diagram, then handleTaskOperation("delete", {id})
EditorDeleteTask(id) ==
    /\ id \in canvas
    /\ canvas' = canvas \ {id}
    /\ handleTaskOperation("delete", "delete", OpData(id, FALSE, FALSE, NULL, FALSE, "none"))
    /\ UNCHANGED <<editorVersion, pendingSelection>>
    /\ TaskOpFrame

\* plain: element.changed -> handleElementMove(event); the position is merged
\* into the entry of element.id when the event carries newBounds
handleElementMove(id, hasNewBounds) ==
    /\ editorVersion = "plain"
    /\ id \in canvas
    /\ editorTasks' = IF hasNewBounds
                      THEN [editorTasks EXCEPT ![id] = [@ EXCEPT !.present = TRUE]]
                      ELSE editorTasks
    /\ taskOpCall' = [op |-> "move", id |-> id, refused |-> ~hasNewBounds]
    /\ UNCHANGED <<editorVersion, canvas, pendingSelection>>
    /\ TaskOpFrame

\* task.status || "pending": the status a row of the preview is rendered with
RecordStatus(entry) == IF entry.status = "none" THEN "pending" ELSE entry.status

\* updateTaskStatus(taskId, status), the onTaskStatusChange of the preview
updateTaskStatus(button, taskId, status) ==
    /\ editorVersion = "validated"
    /\ editorTasks[taskId].present
    /\ handleTaskOperation(button, "update", OpData(taskId, FALSE, FALSE, NULL, TRUE, status))
    /\ UNCHANGED <<editorVersion, canvas, pendingSelection>>
    /\ TaskOpFrame

\* the buttons of a row of TaskChainPreview: Start, Complete, Fail and Reset
\* are rendered by status
PreviewStart(taskId) ==
    /\ RecordStatus(editorTasks[taskId]) = "pending"
    /\ updateTaskStatus("Start", taskId, "in-progress")

PreviewComplete(taskId) ==
    /\ RecordStatus(editorTasks[taskId]) = "in-progress"
    /\ updateTaskStatus("Complete", taskId, "completed")

PreviewFail(taskId) ==
    /\ RecordStatus(editorTasks[taskId]) = "in-progress"
    /\ updateTaskStatus("Fail", taskId, "failed")

PreviewReset(taskId) ==
    /\ RecordStatus(editorTasks[taskId]) \in {"completed", "failed"}
    /\ updateTaskStatus("Reset", taskId, "pending")

\* a cycle button that takes a pending task straight to completed
PreviewCycleSkippingProgress(taskId) ==
    updateTaskStatus("Cycle", taskId,
                     IF RecordStatus(editorTasks[taskId]) = "pending"
                     THEN "completed"
                     ELSE "pending")

\* the single button of the other TaskChainPreview: the next status is
\* computed from the row's status
PreviewCycle(taskId) ==
    updateTaskStatus("Cycle", taskId,
                     IF RecordStatus(editorTasks[taskId]) = "pending"
                     THEN "in-progress"
                     ELSE IF RecordStatus(editorTasks[taskId]) = "in-progress"
                     THEN "completed"
                     ELSE "pending")

TaskOpInit ==
    /\ editorVersion \in {"validated", "plain"}
    /\ editorTasks = EmptyTaskMap
    /\ canvas = {}
    /\ pendingSelection = {}
    /\ taskOpCall = NoTaskOpCall

TaskOpIdle ==
    /\ editorVersion = "plain"
    /\ editorTasks = EmptyTaskMap
    /\ canvas = {}
    /\ pendingSelection = {}
    /\ taskOpCall = NoTaskOpCall

\* the preview over any task map of the validated version: every task is
\* pending, in progress, completed or failed
PreviewInit ==
    /\ editorVersion = "validated"
    /\ editorTasks \in [TaskIds -> {NoEntry} \cup
                           [present : {TRUE}, nextTaskId : {NULL}, status : Statuses]]
    /\ canvas = {t \in TaskIds : editorTasks[t].present}
    /\ pendingSelection = {}
    /\ taskOpCall = NoTaskOpCall

PreviewNext ==
    \/ \E id \in TaskIds : PreviewStart(id)
    \/ \E id \in TaskIds : PreviewComplete(id)
    \/ \E id \in TaskIds : PreviewFail(id)
    \/ \E id \in TaskIds : PreviewReset(id)
    \/ \E id \in TaskIds : PreviewCycle(id)

TaskOpNext ==
    \/ \E id \in TaskIds : handleAddTask(id)
    \/ \E id \in TaskIds : handleSelection(id)
    \/ \E id \in TaskIds : RunDeferredSelection(id)
    \/ \E s \in TaskIds, t \in TaskIds \cup {NULL} : updateTaskConnection(s, t)
    \/ \E id \in TaskIds : EditorDeleteTask(id)
    \/ \E id \in TaskIds, b \in BOOLEAN : handleElementMove(id, b)
    \/ \E id \in TaskIds : PreviewStart(id)
    \/ \E id \in TaskIds : PreviewComplete(id)
    \/ \E id \in TaskIds : PreviewFail(id)
    \/ \E id \in TaskIds : PreviewReset(id)
    \/ \E id \in TaskIds : PreviewCycle(id)

(***************************************************************************)
(* ChangePatternEditor: handleSave, and store/patternSlice.js: addPattern  *)
(***************************************************************************)
MaxPatterns == 1

\* a task map that holds no task: the value of a missing tasks field
NoTasks == [t \in TaskIds |-> NoTask]

\* the pattern object handleSave builds
Pattern(name, tasks, roleId, resourceId) ==
    [name |-> name, hasTasks |-> TRUE, tasks |-> tasks,
     roleId |-> roleId, resourceId |-> resourceId]

\* addPattern: newPattern copies name, roleId and resourceId of the payload
\* (and xml, triggerCondition, action, sequence, conditions, which handleSave
\* does not set); it has no tasks field
addPattern(ps, payload) ==
    Append(ps, [name |-> payload.name, hasTasks |-> FALSE, tasks |-> NoTasks,
                roleId |-> payload.roleId, resourceId |-> payload.resourceId])

\* !x for the return value of validateTaskChain: an object, which is truthy
NotOfObject(result) == FALSE

NoPatternCall ==
    [fn |-> "none", dispatched |-> FALSE, pattern |-> Pattern(NULL, NoTasks, NULL, NULL)]

EditorFrame == UNCHANGED <<chainVars, allocVars, panelVars, roleVars>>

\* handleSave of the editor with the pattern name form
handleSave ==
    /\ Len(patterns) < MaxPatterns
    /\ patternName # NULL
    /\ IF NotOfObject(validateTaskChain(taskChain))
       THEN \* "Invalid task chain configuration"
            /\ patternCall' = [fn |-> "handleSave", dispatched |-> FALSE,
                               pattern |-> Pattern(NULL, NoTasks, NULL, NULL)]
            /\ UNCHANGED patterns
       ELSE LET pattern == Pattern(patternName, taskChain, editorRole, editorResource)
            IN  /\ patterns' = addPattern(patterns, pattern)
                /\ patternCall' = [fn |-> "handleSave", dispatched |-> TRUE,
                                   pattern |-> pattern]
    /\ UNCHANGED <<patternName, editorRole, editorResource, taskOpVars>>
    /\ EditorFrame

\* handleSave of the editor with the role and resource selects
handleSaveSelected ==
    /\ Len(patterns) < MaxPatterns
    /\ editorRole # NULL
    /\ editorResource # NULL
    /\ LET pattern == Pattern(NULL, taskChain, editorRole, editorResource)
       IN  /\ patterns' = addPattern(patterns, pattern)
           /\ patternCall' = [fn |-> "handleSaveSelected", dispatched |-> TRUE,
                              pattern |-> pattern]
    /\ UNCHANGED <<patternName, editorRole, editorResource, taskOpVars>>
    /\ EditorFrame

\* the editor holds any task map the canvas can be brought to, the form any
\* name, role and resource
EditorInit ==
    /\ taskChain \in [TaskIds -> TaskLinks]
    /\ chainCall = NoChainCall
    /\ nextTaskWalk = NoNextTaskWalk
    /\ patterns = <<>>
    /\ patternName \in {NULL, 1}
    /\ editorRole \in {NULL, 1}
    /\ editorResource \in {NULL, 1}
    /\ patternCall = NoPatternCall
    /\ TaskOpIdle

EditorNext ==
    \/ handleSave
    \/ handleSaveSelected

EditorIdle ==
    /\ patterns = <<>>
    /\ patternName = NULL
    /\ editorRole = NULL
    /\ editorResource = NULL
    /\ patternCall = NoPatternCall
    /\ TaskOpIdle

(***************************************************************************)
(* Idle values of the parts a specification leaves alone                   *)
(***************************************************************************)
ChainIdle ==
    /\ taskChain = [t \in TaskIds |-> NoTask]
    /\ chainCall = NoChainCall
    /\ nextTaskWalk = NoNextTaskWalk
AllocIdle == taskProperties = [t \in TaskIds |-> UnboundTask] /\ allocCall = NoAllocCall
PanelIdle ==
    /\ selectedElement = NULL
    /\ editingData = LoadEditingData(UnboundTask)
    /\ allocationType = "1:1"
    /\ isEditing = FALSE
    /\ panelSteps = 0
    /\ panelCall = NoPanelCall
RoleIdle == RoleInit

(***************************************************************************)
(* Specifications                                                          *)
(***************************************************************************)
\* the chain validators applied to every task map within the bounds
InitChain == ChainInit /\ AllocIdle /\ PanelIdle /\ RoleIdle /\ EditorIdle
InitWalk == WalkInit /\ AllocIdle /\ PanelIdle /\ RoleIdle /\ EditorIdle
\* JavaScript runs a call to completion: a loop that has a next iteration takes it
SpecWalk == InitWalk /\ [][WalkNext]_vars /\ WF_vars(StepValidateNextTaskSelection)
SpecChain == InitChain /\ [][ChainNext]_vars

\* the task properties panel, from a task map without bindings
InitPanel == PanelInit /\ ChainIdle /\ RoleIdle /\ EditorIdle
SpecPanel == InitPanel /\ [][PanelNext]_vars

\* the allocation validators applied to every task map within the bounds
\* the role form and the role store, from an empty store
InitRole == RoleInit /\ ChainIdle /\ AllocIdle /\ PanelIdle /\ EditorIdle
SpecRole == InitRole /\ [][RoleNext]_vars

\* getRolePermissions and buildRoleHierarchy applied to every forest of roles
\* within the bounds
InitPerm == PermInit /\ ChainIdle /\ AllocIdle /\ PanelIdle /\ EditorIdle
SpecPerm == InitPerm /\ [][PermNext]_vars

\* one save from every editing state within the bounds
InitHierarchy == HierarchyInit /\ ChainIdle /\ AllocIdle /\ PanelIdle /\ EditorIdle
SpecHierarchy == InitHierarchy /\ [][HierarchyNext]_vars

InitTasks ==
    /\ TaskOpInit
    /\ patterns = <<>>
    /\ patternName = NULL
    /\ editorRole = NULL
    /\ editorResource = NULL
    /\ patternCall = NoPatternCall
    /\ ChainIdle /\ AllocIdle /\ PanelIdle /\ RoleIdle
SpecTasks == InitTasks /\ [][TaskOpNext]_vars

InitPreview ==
    /\ PreviewInit
    /\ patterns = <<>>
    /\ patternName = NULL
    /\ editorRole = NULL
    /\ editorResource = NULL
    /\ patternCall = NoPatternCall
    /\ ChainIdle /\ AllocIdle /\ PanelIdle /\ RoleIdle
SpecPreview == InitPreview /\ [][PreviewNext]_vars

InitLogic == LogicInit /\ AllocIdle /\ PanelIdle /\ RoleIdle /\ EditorIdle
SpecLogic == InitLogic /\ [][LogicNext]_vars

InitSave == SaveInit /\ ChainIdle /\ RoleIdle /\ EditorIdle
SpecSave == InitSave /\ [][SaveNext]_vars

\* the editor's save from every task map within the bounds
InitEditor == EditorInit /\ AllocIdle /\ PanelIdle /\ RoleIdle
SpecEditor == InitEditor /\ [][EditorNext]_vars

InitValidate == ValidateInit /\ ChainIdle /\ PanelIdle /\ RoleIdle /\ EditorIdle
SpecValidate == InitValidate /\ [][ValidateNext]_vars

(***************************************************************************)
(* Properties of the task chain validators                                 *)
(***************************************************************************)
\* the successor of a task: its nextTaskId, when the task is in the map
Succ(tp, t) == IF tp[t].present /\ tp[t].nextTaskId # NULL THEN {tp[t].nextTaskId} ELSE {}

RECURSIVE ReachClosure(_, _)
ReachClosure(tp, S) ==
    LET more == S \cup UNION {Succ(tp, x) : x \in S}
    IN  IF more = S THEN S ELSE ReachClosure(tp, more)

\* the ids reached from t by one or more nextTaskId links
ReachPlus(tp, t) == ReachClosure(tp, Succ(tp, t))

HasCycle(tp) == \E t \in TaskKeys(tp) : t \in ReachPlus(tp, t)

\* C1: validateTaskChain reports the circular-dependency error if and only if
\* some task is reachable from itself by one or more nextTaskId links, also
\* when no start task leads into the cycle.
C1_CircularIffCycle ==
    chainCall.fn = "validateTaskChain" =>
        (chainCall.result.circular > 0 <=> HasCycle(taskChain))

\* C8: on an acyclic task map validateNextTaskSelection(source, target, tasks)
\* returns false if and only if source equals target or source is reachable
\* from target by the existing nextTaskId links.
C8_NextSelectionRejectsExactlyCycles ==
    (chainCall.fn = "validateNextTaskSelection" /\ ~HasCycle(taskChain)) =>
        (~chainCall.result.isValid <=>
            /\ chainCall.target # NULL
            /\ \/ chainCall.source = chainCall.target
               \/ chainCall.source \in ReachPlus(taskChain, chainCall.target))

\* C8 witness: on the chain 1 -> 2 -> 3 the selection 3 -> 1 was rejected
C8_Witness ==
    /\ chainCall.fn = "validateNextTaskSelection"
    /\ TaskKeys(taskChain) = {1, 2, 3}
    /\ taskChain[1].nextTaskId = 2
    /\ taskChain[2].nextTaskId = 3
    /\ taskChain[3].nextTaskId = NULL
    /\ chainCall.source = 3
    /\ chainCall.target = 1
    /\ ~chainCall.result.isValid

\* C13: validateTaskOperation("delete", task, tasks) returns isValid=false if
\* and only if two or more tasks of the map have nextTaskId equal to the
\* task's id.
C13_DeleteRefusedIffSeveralPredecessors ==
    (chainCall.fn = "validateTaskOperation" /\ chainCall.operation = "delete") =>
        (~chainCall.result.isValid <=>
            Cardinality({t \in TaskKeys(taskChain) :
                            taskChain[t].nextTaskId = chainCall.source}) >= 2)

\* C13 witness: tasks 2 and 3 both point to task 1, whose deletion is refused
C13_Witness ==
    /\ chainCall.fn = "validateTaskOperation"
    /\ chainCall.operation = "delete"
    /\ chainCall.source = 1
    /\ taskChain[2].present /\ taskChain[2].nextTaskId = 1
    /\ taskChain[3].present /\ taskChain[3].nextTaskId = 1
    /\ ~chainCall.result.isValid

\* C16: isolated tasks never make validateTaskChain return isValid=false on
\* an acyclic pattern; in particular a pattern of exactly one task is valid.
C16_IsolatedTasksOnlyWarn ==
    (/\ chainCall.fn = "validateTaskChain"
     /\ TaskKeys(taskChain) # {}
     /\ ~HasCycle(taskChain)) =>
        chainCall.result.isValid

\* some task's nextTaskId names a task that is absent from the map
HasDanglingLink(tp) ==
    \E t \in TaskKeys(tp) : tp[t].nextTaskId # NULL /\ ~tp[tp[t].nextTaskId].present

\* C17: validateTaskChainLogic and validateTaskChainTopology return a result
\* and never throw, for every task map; a map with a dangling nextTaskId gets
\* an invalid result.
C17_ChainValidatorsReturnData ==
    chainCall.fn \in {"validateTaskChainLogic", "validateTaskChainTopology"} =>
        /\ ~chainCall.result.threw
        /\ HasDanglingLink(taskChain) => ~chainCall.result.isValid

\* the successors of a task: its nextTasks array when it has one, otherwise
\* its nextTaskId
TemplateSucc(tp, t) ==
    IF ~tp[t].present
    THEN {}
    ELSE {NextTasksOf(tp[t])[k] : k \in 1..Len(NextTasksOf(tp[t]))}

RECURSIVE TemplateReachClosure(_, _)
TemplateReachClosure(tp, S) ==
    LET more == S \cup UNION {TemplateSucc(tp, x) : x \in S}
    IN  IF more = S THEN S ELSE TemplateReachClosure(tp, more)

TemplateReachPlus(tp, t) == TemplateReachClosure(tp, TemplateSucc(tp, t))

TemplateHasCycle(tp) == \E t \in TaskKeys(tp) : t \in TemplateReachPlus(tp, t)

TemplateHasDanglingLink(tp) ==
    \E t \in TaskKeys(tp) : \E n \in TemplateSucc(tp, t) : ~tp[n].present

\* C22: on a task map without dangling links validateTaskChainLogic returns
\* isValid=false if and only if some task is reachable from itself by its
\* successors (the nextTasks array when present, otherwise nextTaskId); maps
\* in which several tasks point to the same successor are valid.
C22_LogicInvalidIffCycle ==
    (chainCall.fn = "validateTaskChainLogic" /\ ~TemplateHasDanglingLink(taskChain)) =>
        /\ ~chainCall.result.threw
        /\ ~chainCall.result.isValid <=> TemplateHasCycle(taskChain)

\* C22 witness: task 1 fans out to 2 and 3, and 2 joins 3; reported valid
C22_Witness ==
    /\ chainCall.fn = "validateTaskChainLogic"
    /\ TaskKeys(taskChain) = {1, 2, 3}
    /\ NextTasksOf(taskChain[1]) = <<2, 3>>
    /\ NextTasksOf(taskChain[2]) = <<3>>
    /\ NextTasksOf(taskChain[3]) = <<>>
    /\ chainCall.result.isValid

(***************************************************************************)
(* Properties of the allocation validators                                 *)
(***************************************************************************)
\* a task's binding contains r: as its single resourceId, as a member of its
\* resource-id list, or inside one of its roleResources entries
BoundTo(task, r) ==
    \/ task.resourceId.kind = "one" /\ task.resourceId.id = r
    \/ task.resourceId.kind = "list" /\ r \in task.resourceId.ids
    \/ task.roleResources.defined
        /\ \E q \in task.roleResources.keys : r \in task.roleResources.lists[q]

TasksBoundTo(tp, r) == {id \in DOMAIN tp : BoundTo(tp[id], r)}

Registered(r) == CHOOSE x \in resources : x.id = r

\* capacity(resource): maxShares if shared, else 1
Capacity(resource) == IF resource.isShared THEN resource.maxShares ELSE 1

\* C2: validateResourceAllocation returns true exactly when the number of
\* other tasks bound to the resource is 0 (exclusive) or below the capacity
\* (shared).
C2_AdmissibleIffBelowCapacity ==
    (/\ allocCall.fn = "validateResourceAllocation"
     /\ allocCall.resourceId.id \in RegisteredIds) =>
        LET r     == allocCall.resourceId.id
            other == Cardinality(TasksBoundTo(taskProperties, r) \ {allocCall.taskId})
        IN  allocCall.isValid <=>
                IF Registered(r).isShared
                THEN other < Capacity(Registered(r))
                ELSE other = 0

\* C4 as claimed: for every task map, a task already bound to a registered
\* resource r (exclusive or shared) is always accepted for r.
C4_OwnBindingAlwaysAccepted ==
    (/\ allocCall.fn = "validateResourceAllocation"
     /\ allocCall.resourceId.id \in RegisteredIds
     /\ BoundTo(taskProperties[allocCall.taskId], allocCall.resourceId.id)) =>
        allocCall.isValid

\* C4 as amended: a task already bound to a registered resource r is accepted
\* for r whenever the tasks bound to r, itself included, number at most the
\* capacity of r (so also when r is exactly at full capacity): its own
\* binding is not counted against it.
C4_OwnBindingAcceptedWithinCapacity ==
    (/\ allocCall.fn = "validateResourceAllocation"
     /\ allocCall.resourceId.id \in RegisteredIds
     /\ BoundTo(taskProperties[allocCall.taskId], allocCall.resourceId.id)
     /\ Cardinality(TasksBoundTo(taskProperties, allocCall.resourceId.id))
            <= Capacity(Registered(allocCall.resourceId.id))) =>
        allocCall.isValid

\* C4 witness: the shared resource is at full capacity, the task holds it and
\* was accepted again
C4_Witness ==
    /\ allocCall.fn = "validateResourceAllocation"
    /\ allocCall.resourceId.id \in RegisteredIds
    /\ Registered(allocCall.resourceId.id).isShared
    /\ BoundTo(taskProperties[allocCall.taskId], allocCall.resourceId.id)
    /\ Cardinality(TasksBoundTo(taskProperties, allocCall.resourceId.id))
            = Capacity(Registered(allocCall.resourceId.id))
    /\ Cardinality(TasksBoundTo(taskProperties, allocCall.resourceId.id)) > 1
    /\ allocCall.isValid

\* C5: AuthorizationService.validateResourceAllocation accepts (t, r) when t
\* is one of the tasks bound to the shared resource r and the number of tasks
\* bound to r equals maxShares.
C5_AuthKeepsOwnSharedResource ==
    (/\ allocCall.fn = "AuthorizationService.validateResourceAllocation"
     /\ allocCall.resourceId.id \in RegisteredIds
     /\ Registered(allocCall.resourceId.id).isShared
     /\ BoundTo(taskProperties[allocCall.taskId], allocCall.resourceId.id)
     /\ Cardinality(TasksBoundTo(taskProperties, allocCall.resourceId.id))
            = Registered(allocCall.resourceId.id).maxShares) =>
        allocCall.isValid

\* C6: the usage count of a resource counts each task at most once, in
\* countResourceShares and in the panel's count for shared resources.
C6_EachTaskCountedOnce ==
    /\ allocCall.fn = "AuthorizationService.countResourceShares" =>
            allocCall.count = Cardinality(TasksBoundTo(taskProperties, allocCall.resourceId.id))
    /\ allocCall.fn = "isResourceAvailable" =>
            allocCall.count <= Cardinality(TasksBoundTo(taskProperties, allocCall.resourceId.id))

(***************************************************************************)
(* Properties of the task properties panel                                 *)
(***************************************************************************)
\* C3: after any sequence of panel edits and task deletions every exclusive
\* resource is bound by at most one task and every shared resource by at most
\* maxShares tasks.
C3_BindingsWithinCapacity ==
    \A res \in resources : Cardinality(TasksBoundTo(taskProperties, res.id)) <= Capacity(res)

\* r, on its own, passes the exclusive/shared capacity check against the
\* tasks other than t
Admissible(tp, r, t) ==
    /\ r \in RegisteredIds
    /\ Cardinality(TasksBoundTo(tp, r) \ {t}) < Capacity(Registered(r))

\* C7: a save that names several resources is accepted if and only if every
\* named resource passes the capacity check on its own.  (An accepted save
\* changes the saved task alone, so the other tasks are those of the call.)
C7_MultiResourceSaveIffEachAdmissible ==
    (/\ panelCall.op = "handleSaveChanges"
     /\ panelCall.resources.kind = "list"
     /\ panelCall.resources.ids # {}) =>
        (panelCall.accepted <=>
            \A r \in panelCall.resources.ids : Admissible(taskProperties, r, panelCall.taskId))

\* the n:n binding handleSaveChanges is about to save (editingData) names a
\* role without a roleResources entry or with an empty resource list
ShapeViolation(ed) ==
    /\ ed.allocationType = "n:n"
    /\ ed.roleId.kind = "list"
    /\ \E q \in ed.roleId.ids :
           \/ ~ed.roleResources.defined
           \/ q \notin ed.roleResources.keys
           \/ ed.roleResources.lists[q] = {}

\* C14: handleSaveChanges rejects an n:n binding with a role that has no
\* roleResources entry or an empty list; it stops before the capacity check
\* (no resource was handed to it) and leaves the task map unchanged.
C14_ShapeViolationRejectedFirst ==
    [][(/\ panelSteps' = panelSteps + 1
        /\ panelCall'.op = "handleSaveChanges"
        /\ ShapeViolation(editingData)) =>
           /\ ~panelCall'.accepted
           /\ panelCall'.resources = List({})
           /\ taskProperties' = taskProperties]_vars

\* C14 witness: the editing copy is n:n and names roles 1 and 2, neither with
\* a roleResources entry, and the save was rejected for the missing resources
C14_Witness ==
    /\ panelCall.op = "handleSaveChanges"
    /\ ~panelCall.accepted
    /\ selectedElement # NULL
    /\ ShapeViolation(editingData)
    /\ editingData.roleId = RoleList({1, 2})
    /\ panelCall.resources = List({})

(***************************************************************************)
(* Properties of the role hierarchy                                        *)
(***************************************************************************)
\* the parent named by the first stored role called name
ParentOf(rs, name) ==
    IF HasRole(rs, name) /\ FindRole(rs, name).parent_role # NULL
    THEN {FindRole(rs, name).parent_role}
    ELSE {}

RECURSIVE AncestorClosure(_, _)
AncestorClosure(rs, S) ==
    LET more == S \cup UNION {ParentOf(rs, x) : x \in S}
    IN  IF more = S THEN S ELSE AncestorClosure(rs, more)

\* the names reached from name by one or more parent links
Ancestors(rs, name) == AncestorClosure(rs, ParentOf(rs, name))

\* the proposed parent is the role itself or has the role among its ancestors
ClosesCycle(rs, name, parent) ==
    /\ parent # NULL
    /\ \/ parent = name
       \/ name \in Ancestors(rs, parent)

\* C9: handleAddOrEditRole rejects every create or edit whose proposed parent
\* has the role itself among its ancestors in the existing hierarchy (or is
\* the role itself), before RoleService is called and before anything is
\* dispatched to the store.
C9_CyclicParentRejectedBeforeMutation ==
    (/\ roleCall.op = "handleAddOrEditRole"
     /\ ClosesCycle(roleCall.store, roleCall.name, roleCall.parent_role)) =>
        /\ roleCall.rejected
        /\ ~roleCall.serviceCalled
        /\ ~roleCall.dispatched

\* C10: after any sequence of role create, edit and delete operations no
\* stored role is its own ancestor.
C10_RoleHierarchyAcyclic ==
    \A i \in 1..Len(roles) : roles[i].name \notin Ancestors(roles, roles[i].name)

(***************************************************************************)
(* Properties of the role permissions                                      *)
(***************************************************************************)
ChildNames(rs, name) == {rs[i].name : i \in {j \in 1..Len(rs) : rs[j].parent_role = name}}

RECURSIVE DescendantClosure(_, _)
DescendantClosure(rs, S) ==
    LET more == S \cup UNION {ChildNames(rs, x) : x \in S}
    IN  IF more = S THEN S ELSE DescendantClosure(rs, more)

\* the strict descendants of name: children, grandchildren, and so on
StrictDescendants(rs, name) == DescendantClosure(rs, ChildNames(rs, name))

\* the resources some role of names holds as a non-private direct permission
PublicResourcesOf(rs, names) ==
    UNION {{rs[i].permissions[k].resource :
                k \in {m \in 1..Len(rs[i].permissions) : ~rs[i].permissions[m].is_private}} :
           i \in {j \in 1..Len(rs) : rs[j].name \in names}}

\* C11: in an acyclic hierarchy getRolePermissions(r).inherited holds exactly
\* one entry per resource that is a non-private direct permission of a strict
\* descendant of r, and nothing else; no entry is private.
C11_InheritedIsPublicOfDescendants ==
    (permCall.fn = "getRolePermissions" /\ HasRole(roles, permCall.role)) =>
        LET inherited == permCall.inherited
        IN  /\ {inherited[i].resource : i \in 1..Len(inherited)}
                   = PublicResourcesOf(roles, StrictDescendants(roles, permCall.role))
            /\ \A i, j \in 1..Len(inherited) :
                   inherited[i].resource = inherited[j].resource => i = j
            /\ \A i \in 1..Len(inherited) : ~inherited[i].is_private

\* C11 witness: role 1 has the child 2 holding a public permission on 1 and a
\* private one on 2, role 3 below 2 holds the public permission on 1 again;
\* role 1 inherits the single entry for resource 1
C11_Witness ==
    /\ permCall.fn = "getRolePermissions"
    /\ permCall.role = 1
    /\ roles[2].parent_role = 1
    /\ roles[2].permissions = <<Public(1), Private(2)>>
    /\ roles[3].parent_role = 2
    /\ roles[3].permissions = <<Public(1)>>
    /\ permCall.inherited = <<Public(1)>>

\* C12: getRolePermissions terminates on every hierarchy the create and edit
\* operations produce: no call for a role is nested inside a call for the same
\* role (such a call repeats itself without end), so no role contributes to
\* its own inherited permissions.
C12_NoRoleEvaluatedInsideItself ==
    \A i, j \in 1..Len(permStack) : permStack[i].name = permStack[j].name => i = j

(***************************************************************************)
(* Properties of the pattern save                                          *)
(***************************************************************************)
\* C15: handleSave never dispatches addPattern for a task map that contains a
\* nextTaskId cycle.
C15_NoCyclicPatternDispatched ==
    patternCall.dispatched => ~HasCycle(patternCall.pattern.tasks)

\* C20: after addPattern(p) the pattern appended to the store carries p's
\* tasks map unchanged, together with p's name, roleId and resourceId.
C20_StoredPatternKeepsTasks ==
    patternCall.dispatched =>
        LET stored == patterns[Len(patterns)]
            p == patternCall.pattern
        IN  /\ stored.hasTasks
            /\ stored.tasks = p.tasks
            /\ stored.name = p.name
            /\ stored.roleId = p.roleId
            /\ stored.resourceId = p.resourceId

\* C19: no two distinct roles of the store have the same name, whatever
\* roles were created and edited.
C19_RoleNamesUnique ==
    \A i, j \in 1..Len(roles) : roles[i].name = roles[j].name => i = j

(***************************************************************************)
(* Properties of the role tree                                             *)
(***************************************************************************)
\* how often the node key occurs in the trees below the nodes keys, down to
\* depth levels
RECURSIVE OccurrencesIn(_, _, _, _)
OccurrencesIn(forest, keys, key, depth) ==
    IF keys = <<>> \/ depth = 0
    THEN 0
    ELSE (IF keys[1] = key THEN 1 ELSE 0)
         + OccurrencesIn(forest, forest.children[keys[1]], key, depth - 1)
         + OccurrencesIn(forest, SubSeq(keys, 2, Len(keys)), key, depth)

Occurrences(forest, key) ==
    OccurrencesIn(forest, forest.roots, key, MaxPermRoles + 1)

IsRoot(forest, key) == \E i \in 1..Len(forest.roots) : forest.roots[i] = key

\* the role has no parent, or its parent names no stored role
ParentUnresolved(rs, r) == r.parent_role = NULL \/ ~HasRole(rs, r.parent_role)

\* C18: the forest returned by buildRoleHierarchy / getRoleHierarchy holds
\* every stored role exactly once, and a role is a root exactly when it has no
\* parent or its parent is not a stored role.
C18_ForestHoldsEachRoleOnce ==
    hierarchyCall.fn # "none" =>
        \A i \in 1..Len(roles) :
            /\ Occurrences(hierarchyCall, roles[i].name) = 1
            /\ IsRoot(hierarchyCall, roles[i].name) <=> ParentUnresolved(roles, roles[i])

\* the same, for the two builders that read the parent link once per role
C18_ForestOfManagerAndService ==
    hierarchyCall.fn \in {"buildRoleHierarchy", "getRoleHierarchy"} =>
        \A i \in 1..Len(roles) :
            /\ Occurrences(hierarchyCall, roles[i].name) = 1
            /\ IsRoot(hierarchyCall, roles[i].name) <=> ParentUnresolved(roles, roles[i])

(***************************************************************************)
(* Properties of the editor's task map                                     *)
(***************************************************************************)
PreviewButtons == {"Start", "Complete", "Fail", "Reset", "Cycle"}

\* pending -> in-progress -> completed | failed -> pending
StatusSteps ==
    {<<"pending", "in-progress">>, <<"in-progress", "completed">>,
     <<"in-progress", "failed">>, <<"completed", "pending">>, <<"failed", "pending">>}

\* C21: a click on a button of the task chain preview changes a task's status
\* only along pending -> in-progress, in-progress -> completed or failed, and
\* completed or failed -> pending.
C21_StatusFollowsStateMachine ==
    [][taskOpCall'.op \in PreviewButtons =>
          \A t \in TaskIds :
              (/\ editorTasks[t].present
               /\ editorTasks'[t].present
               /\ RecordStatus(editorTasks'[t]) # RecordStatus(editorTasks[t])) =>
                  <<RecordStatus(editorTasks[t]), RecordStatus(editorTasks'[t])>> \in StatusSteps]_vars

\* C21 witness: the Fail button has taken a started task to failed while
\* another task is completed
C21_Witness ==
    /\ taskOpCall.op = "Fail"
    /\ editorTasks[taskOpCall.id].status = "failed"
    /\ \E t \in TaskIds : editorTasks[t].present /\ editorTasks[t].status = "completed"

\* C23: whatever tasks were added, updated, connected and deleted in the
\* editor, no task of taskProperties is reachable from itself by nextTaskId
\* links.
C23_EditorTaskMapAcyclic == ~HasCycle(editorTasks)

\* C24: after a delete through handleTaskOperation no remaining task's
\* nextTaskId names the deleted id, and every nextTaskId is null or names a
\* task of the map.
C24_DeleteClearsLinks ==
    (taskOpCall.op = "delete" /\ ~taskOpCall.refused) =>
        /\ \A t \in TaskKeys(editorTasks) : editorTasks[t].nextTaskId # taskOpCall.id
        /\ ~HasDanglingLink(editorTasks)

\* the tasks whose nextTaskId is id
Predecessors(tp, id) == {t \in TaskKeys(tp) : tp[t].nextTaskId = id}

\* C25: a delete request for a task that has two or more predecessors is
\* refused and leaves taskProperties unchanged.
C25_DeleteWithSeveralPredecessorsRefused ==
    [][(/\ taskOpCall'.op = "delete"
        /\ canvas' # canvas
        /\ Cardinality(Predecessors(editorTasks, taskOpCall'.id)) >= 2) =>
           (taskOpCall'.refused /\ editorTasks' = editorTasks)]_vars

\* C28: an entry appears in the task map only through an explicit add; a
\* deferred selection update, an element-changed or an element-move update for
\* a deleted task does not put its id back.
C28_DeletedTaskReappearsOnlyByAdd ==
    [][\A t \in TaskIds :
          (~editorTasks[t].present /\ editorTasks'[t].present) => taskOpCall'.op = "add"]_vars

\* C26: getAvailableResources marks a resource occupied / disabled for the
\* selected task if and only if validateResourceAllocation would reject binding
\* that resource to that task.
C26_OccupiedIffValidatorRejects ==
    allocCall.fn \in {"getAvailableResources", "useTaskTreeMonitor.getAvailableResources"} =>
        (allocCall.isValid <=>
            validateResourceAllocation(allocCall.resourceId, allocCall.taskId, taskProperties))

\* C27: handleResourceAllocation(taskId, allocation) writes the allocation's
\* roleId and resourceId into the task if and only if the resource exists and
\* the other tasks use it below its capacity; otherwise taskProperties is
\* unchanged.
C27_AllocationWrittenIffAdmissible ==
    [][allocCall'.fn = "handleResourceAllocation" =>
          LET t == allocCall'.taskId
              r == allocCall'.resourceId.id
          IN  IF Admissible(taskProperties, r, t)
              THEN /\ taskProperties'[t].resourceId = One(r)
                   /\ taskProperties'[t].roleId = OneRole(1)
              ELSE taskProperties' = taskProperties]_vars

\* C29: after the panel's handleDeleteTask(t) has completed and reported
\* success, taskProperties holds no entry for t.
C29_PanelDeleteRemovesEntry ==
    (panelCall.op = "handleDeleteTask" /\ panelCall.accepted) =>
        panelCall.taskId \notin DOMAIN taskProperties

\* C30: validateNextTaskSelection terminates on every task map, also on maps
\* that hold a nextTaskId cycle or links to missing tasks: a call that has
\* entered its loop returns, and the loop reads no task's entry twice.
NoTaskVisitedTwice ==
    \A i, j \in 1..Len(nextTaskWalk.visits) :
        nextTaskWalk.visits[i] = nextTaskWalk.visits[j] => i = j

C30_NextTaskWalkTerminates ==
    /\ (nextTaskWalk.pc = "while") ~> (nextTaskWalk.pc = "done")
    /\ [](NoTaskVisitedTwice /\ Len(nextTaskWalk.visits) <= MaxTasks)

\* a returned call whose walk ran into a cycle that does not hold the current
\* task
C30_Witness ==
    /\ nextTaskWalk.pc = "done"
    /\ ~nextTaskWalk.result
    /\ Len(nextTaskWalk.visits) >= 2
    /\ HasCycle(taskChain)
    /\ nextTaskWalk.currentTaskId \notin ReachPlus(taskChain, nextTaskWalk.currentTaskId)

====
